---- MODULE Spec2Model ----
(***************************************************************************)
(* State-machine model of FileManager (src/main.py): the navigation and    *)
(* panel state of the terminal file browser, the filesystem it lists and   *)
(* changes, and one action per key command of FileManager.run.             *)
(*                                                                         *)
(* File names are sequences of ASCII codes, so that str.lower(),           *)
(* str.startswith(), str.endswith() and the `in` substring test are        *)
(* computed as Python computes them.  A path is the sequence of its        *)
(* components; << >> is Path('/').                                         *)
(***************************************************************************)
EXTENDS Integers, Sequences, FiniteSets, TLC

---------------------------------------------------------------------------
(* Bounds of the model.                                                    *)

\* Largest terminal height (stdscr.getmaxyx) the model starts with.
MaxHeight == 4

\* Number of changes of the filesystem (by a command or from outside) in
\* one behaviour.
MaxFsChanges == 1

\* Largest max_length a text dialog is opened with (the callers pass 50
\* and 20).
MaxLength == 3

\* Number of error texts paste_file puts in its message: errors[:3].
ErrorCap == 3

\* Rows of the screen that adjust_scroll keeps for the title, the status bar
\* and the message bar: visible_height = height - 3.
ChromeRows == 3

---------------------------------------------------------------------------
(* Strings.                                                                *)

\* str.lower() on one character.
LowerChar(c) == IF c >= 65 /\ c <= 90 THEN c + 32 ELSE c

\* str.lower()
Lower(s) == [i \in 1..Len(s) |-> LowerChar(s[i])]

\* s.startswith(p)
StartsWith(s, p) == Len(p) <= Len(s) /\ SubSeq(s, 1, Len(p)) = p

\* s.endswith(p)
EndsWith(s, p) ==
    Len(p) <= Len(s) /\ SubSeq(s, Len(s) - Len(p) + 1, Len(s)) = p

\* p in s (substring test)
Contains(s, p) ==
    \E i \in 0..(Len(s) - Len(p)) : SubSeq(s, i + 1, i + Len(p)) = p

\* s < t, Python's comparison of two str (code point by code point).
RECURSIVE StrLess(_, _)
StrLess(s, t) ==
    IF t = << >> THEN FALSE
    ELSE IF s = << >> THEN TRUE
    ELSE IF s[1] # t[1] THEN s[1] < t[1]
    ELSE StrLess(Tail(s), Tail(t))

\* str.strip() of the blanks (code 32) at both ends.
RECURSIVE Strip(_)
Strip(s) ==
    IF s = << >> THEN s
    ELSE IF s[1] = 32 THEN Strip(Tail(s))
    ELSE IF s[Len(s)] = 32 THEN Strip(SubSeq(s, 1, Len(s) - 1))
    ELSE s

\* The file names of the model: "c", "a.t", "B.T", ".h", "n", "d", "C".
Name_c  == << 99 >>
Name_at == << 97, 46, 116 >>
Name_BT == << 66, 46, 84 >>
Name_h  == << 46, 104 >>
Name_n  == << 110 >>
Name_d  == << 100 >>
Name_C  == << 67 >>

---------------------------------------------------------------------------
(* The filesystem: a function from the existing paths to their kind,       *)
(* "file", "dir" or "xdir" (a directory without read permission, whose     *)
(* iterdir() raises PermissionError).                                      *)

Root == << >>

\* Path.parent; Path('/').parent is Path('/').
Parent(p) == IF p = Root THEN Root ELSE SubSeq(p, 1, Len(p) - 1)

\* Path / name
Join(p, name) == Append(p, name)

\* Path.name
BaseName(p) == IF p = Root THEN << >> ELSE p[Len(p)]

\* q is p or lies below p.
IsUnder(q, p) == Len(q) >= Len(p) /\ SubSeq(q, 1, Len(p)) = p

\* The filesystem at startup:  /c/ (holding a.t),  /B.T,  /.h
InitFs ==
    [p \in { Root,
             << Name_c >>,
             << Name_BT >>,
             << Name_h >>,
             << Name_c, Name_at >> }
       |-> IF p \in { Root, << Name_c >> } THEN "dir" ELSE "file"]

\* A startup filesystem in which /c also holds a directory that cannot be
\* read:  /c/ (holding a.t and d/),  /B.T,  /.h
DeepFs ==
    [p \in DOMAIN InitFs \cup { << Name_c, Name_d >> } |->
        IF p = << Name_c, Name_d >> THEN "xdir" ELSE InitFs[p]]

\* A startup filesystem in which /c also holds a B.T:
\* /c/ (holding a.t and B.T),  /B.T,  /.h
TwinFs ==
    [p \in DOMAIN InitFs \cup { << Name_c, Name_BT >> } |->
        IF p = << Name_c, Name_BT >> THEN "file" ELSE InitFs[p]]

\* The names a directory snapshot is made of.
SnapshotNames == { Name_c, Name_C, Name_at, Name_BT, Name_h, Name_n }

\* The filesystem whose root holds the names n with kinds[n] # "none", as a
\* file or as a directory.
SnapshotFs(kinds) ==
    [p \in {Root} \cup { << n >> : n \in { m \in SnapshotNames : kinds[m] # "none" } }
       |-> IF p = Root THEN "dir" ELSE kinds[p[1]]]

\* Path.exists()
Exists(f, p) == p \in DOMAIN f

\* Path.is_dir()
IsDir(f, p) == Exists(f, p) /\ f[p] \in {"dir", "xdir"}

\* The names of the direct children of p.
Children(f, p) ==
    { q[Len(q)] : q \in { r \in DOMAIN f : Len(r) = Len(p) + 1 /\ IsUnder(r, p) } }

\* The filesystem without p and everything below it (unlink, rmtree).
RemoveTree(f, p) == [q \in { r \in DOMAIN f : ~IsUnder(r, p) } |-> f[q]]

\* The filesystem with the tree at src also present at dst (copytree, copy2).
CopyTree(f, src, dst) ==
    LET sub == { r \in DOMAIN f : IsUnder(r, src) }
        img(r) == dst \o SubSeq(r, Len(src) + 1, Len(r))
    IN [q \in DOMAIN f \cup { img(r) : r \in sub } |->
          IF \E r \in sub : img(r) = q
          THEN f[CHOOSE r \in sub : img(r) = q]
          ELSE f[q]]

\* An entry of a listing is << name, is_dir >> (the stat fields size, mode
\* and mtime of the tuple are only drawn, never tested).
Entry(f, p, name) == << name, IsDir(f, Join(p, name)) >>

\* A sort key that compares the names as they are, not lower-cased.
KeyLess_raw(e1, e2) ==
    IF e1[2] # e2[2] THEN e1[2] ELSE StrLess(e1[1], e2[1])

\* The sort key of refresh_files: (not is_dir, name.lower()); e1 < e2.
\* Entries whose keys are equal keep the order of iterdir(), modelled as
\* the order of the names themselves.
KeyLess(e1, e2) ==
    IF e1[2] # e2[2] THEN e1[2]
    ELSE IF Lower(e1[1]) # Lower(e2[1]) THEN StrLess(Lower(e1[1]), Lower(e2[1]))
    ELSE StrLess(e1[1], e2[1])

\* The entries of a set in sort order.
RECURSIVE SortEntries(_)
SortEntries(S) ==
    IF S = {} THEN << >>
    ELSE LET m == CHOOSE e \in S : \A o \in S \ {e} : KeyLess(e, o)
         IN << m >> \o SortEntries(S \ {m})

\* The listing loop shared by refresh_files and refresh_panel_files:
\* status "ok" with the sorted entries, "perm" when iterdir() raises
\* PermissionError, "err" when it raises another exception (the path is
\* gone or is not a directory).
ListDir(f, p, hidden) ==
    IF ~Exists(f, p) \/ f[p] = "file" THEN [status |-> "err", entries |-> << >>]
    ELSE IF f[p] = "xdir" THEN [status |-> "perm", entries |-> << >>]
    ELSE [status |-> "ok",
          entries |-> SortEntries({ Entry(f, p, n) :
                        n \in { c \in Children(f, p) :
                                  hidden \/ ~StartsWith(c, << 46 >>) } })]

---------------------------------------------------------------------------
(* The state of FileManager (the fields of self), the filesystem and the   *)
(* terminal.                                                               *)

VARIABLES
    current_path,          \* self.current_path
    selected_index,        \* self.selected_index (0-based, as in the code)
    scroll_offset,         \* self.scroll_offset
    files,                 \* self.files: sequence of entries
    show_hidden,           \* self.show_hidden
    clipboard,             \* self.clipboard: sequence of paths, << >> for None
    clipboard_action,      \* self.clipboard_action: "copy", "cut" or "None"
    message,               \* self.message: the text shown, without its arguments
    selected_files,        \* self.selected_files: set of indices
    dual_panel_mode,       \* self.dual_panel_mode
    active_panel,          \* self.active_panel: 0 or 1
    panel_paths,           \* self.panel_paths[0..1]
    panel_selected_index,  \* self.panel_selected_index[0..1]
    panel_scroll_offset,   \* self.panel_scroll_offset[0..1]
    panel_files,           \* self.panel_files[0..1]
    panel_selected_files,  \* self.panel_selected_files[0..1]
    search_mode,           \* self.search_mode
    search_query,          \* self.search_query
    filter_mode,           \* self.filter_mode
    filter_extension,      \* self.filter_extension
    original_files,        \* self.original_files
    fs,                    \* the filesystem
    height,                \* stdscr.getmaxyx()[0]
    running,               \* "running", "quit" (the loop ended by break) or
                           \* "crashed" (an exception left FileManager.run)
    cd_on_exit,            \* self.cd_on_exit: started with --cd
    temp_file,             \* the content of self.temp_file: << >> as mkstemp
                           \* made it, << x >> once the text x was written
    dialog,                \* the locals of get_dialog_input and how it ended
    fs_changes             \* number of filesystem changes so far

vars == << current_path, selected_index, scroll_offset, files, show_hidden,
           clipboard, clipboard_action, message, selected_files,
           dual_panel_mode, active_panel, panel_paths, panel_selected_index,
           panel_scroll_offset, panel_files, panel_selected_files,
           search_mode, search_query, filter_mode, filter_extension,
           original_files, fs, height, running, cd_on_exit, temp_file,
           dialog, fs_changes >>

\* The program state as one record, on which the methods below operate.
Self ==
    [current_path |-> current_path, selected_index |-> selected_index,
     scroll_offset |-> scroll_offset, files |-> files,
     show_hidden |-> show_hidden, clipboard |-> clipboard,
     clipboard_action |-> clipboard_action, message |-> message,
     selected_files |-> selected_files, dual_panel_mode |-> dual_panel_mode,
     active_panel |-> active_panel, panel_paths |-> panel_paths,
     panel_selected_index |-> panel_selected_index,
     panel_scroll_offset |-> panel_scroll_offset, panel_files |-> panel_files,
     panel_selected_files |-> panel_selected_files,
     search_mode |-> search_mode, search_query |-> search_query,
     filter_mode |-> filter_mode, filter_extension |-> filter_extension,
     original_files |-> original_files, fs |-> fs, height |-> height,
     running |-> running, cd_on_exit |-> cd_on_exit, temp_file |-> temp_file,
     dialog |-> dialog]

\* max(0, n)
Max0(n) == IF n < 0 THEN 0 ELSE n

\* self.show_message(text)
show_message(s, text) == [s EXCEPT !.message = text]

\* An exception that no handler catches leaves FileManager.run.
Crash(s) == [s EXCEPT !.running = "crashed"]

\* FileManager.sync_to_panels
sync_to_panels(s) ==
    [s EXCEPT !.panel_paths[s.active_panel] = s.current_path,
              !.panel_selected_index[s.active_panel] = s.selected_index,
              !.panel_scroll_offset[s.active_panel] = s.scroll_offset,
              !.panel_selected_files[s.active_panel] = s.selected_files]

\* FileManager.sync_from_panels
sync_from_panels(s) ==
    [s EXCEPT !.current_path = s.panel_paths[s.active_panel],
              !.selected_index = s.panel_selected_index[s.active_panel],
              !.scroll_offset = s.panel_scroll_offset[s.active_panel],
              !.selected_files = s.panel_selected_files[s.active_panel],
              !.files = IF s.dual_panel_mode
                        THEN s.panel_files[s.active_panel] ELSE s.files]

\* FileManager.refresh_panel_files(panel_idx)
refresh_panel_files(s, i) ==
    LET r == ListDir(s.fs, s.panel_paths[i], s.show_hidden)
    IN IF r.status = "err"
       THEN [s EXCEPT !.panel_files[i] = << >>]
       ELSE [s EXCEPT !.panel_files[i] = r.entries,
                      !.panel_selected_index[i] =
                          IF @ >= Len(r.entries)
                          THEN Max0(Len(r.entries) - 1) ELSE @,
                      !.panel_selected_files[i] = {}]

\* The single-panel branch of FileManager.refresh_files.
refresh_files_single(s) ==
    LET r == ListDir(s.fs, s.current_path, s.show_hidden)
    IN IF r.status = "perm"
       THEN [s EXCEPT !.files = << >>, !.message = "Permission denied"]
       ELSE IF r.status = "err"
       THEN [s EXCEPT !.files = << >>, !.message = "Error reading directory"]
       ELSE LET overlay == s.search_mode \/ s.filter_mode
            IN [s EXCEPT
                  !.files = r.entries,
                  !.selected_index =
                      IF @ >= Len(r.entries) THEN Max0(Len(r.entries) - 1) ELSE @,
                  !.selected_files = {},
                  !.original_files = IF overlay THEN << >> ELSE @,
                  !.search_mode = FALSE,
                  !.filter_mode = FALSE,
                  !.search_query = IF overlay THEN << >> ELSE @,
                  !.filter_extension = IF overlay THEN << >> ELSE @]

\* FileManager.refresh_files
refresh_files(s) ==
    IF s.dual_panel_mode
    THEN LET t == refresh_panel_files(refresh_panel_files(s, 0), 1)
         IN [t EXCEPT !.files = t.panel_files[t.active_panel]]
    ELSE refresh_files_single(s)

\* A switch that does not save the state of the panel it leaves.
switch_panel_unsaved(s) ==
    IF s.dual_panel_mode
    THEN LET o == 1 - s.active_panel
         IN [s EXCEPT !.active_panel = o,
                      !.current_path = s.panel_paths[o],
                      !.selected_index = s.panel_selected_index[o],
                      !.scroll_offset = s.panel_scroll_offset[o],
                      !.selected_files = s.panel_selected_files[o],
                      !.files = s.panel_files[o]]
    ELSE s

\* FileManager.switch_panel
switch_panel(s) ==
    IF s.dual_panel_mode
    THEN LET t == sync_to_panels(s)
             o == 1 - s.active_panel
         IN [t EXCEPT !.active_panel = o,
                      !.current_path = t.panel_paths[o],
                      !.selected_index = t.panel_selected_index[o],
                      !.scroll_offset = t.panel_scroll_offset[o],
                      !.selected_files = t.panel_selected_files[o],
                      !.files = t.panel_files[o]]
    ELSE s

\* FileManager.toggle_dual_panel
toggle_dual_panel(s) ==
    IF ~s.dual_panel_mode
    THEN LET o  == 1 - s.active_panel
             t1 == sync_to_panels([s EXCEPT !.dual_panel_mode = TRUE])
             t2 == [t1 EXCEPT !.panel_paths[o] = s.current_path,
                              !.panel_selected_index[o] = 0,
                              !.panel_scroll_offset[o] = 0,
                              !.panel_selected_files[o] = {}]
             t3 == refresh_panel_files(refresh_panel_files(t2, 0), 1)
         IN show_message([t3 EXCEPT !.files = t3.panel_files[t3.active_panel]],
                         "Dual panel mode ON")
    ELSE refresh_files(
           show_message(sync_from_panels([s EXCEPT !.dual_panel_mode = FALSE]),
                        "Single panel mode"))

\* An adjust_scroll that, scrolling up, keeps one row above the cursor.
adjust_scroll_margin(s) ==
    LET visible_height == s.height - ChromeRows
        off == IF s.selected_index < s.scroll_offset
               THEN s.selected_index - 1
               ELSE IF s.selected_index >= s.scroll_offset + visible_height
               THEN s.selected_index - visible_height + 1
               ELSE s.scroll_offset
    IN [s EXCEPT !.scroll_offset = off,
                 !.panel_scroll_offset[s.active_panel] =
                     IF s.dual_panel_mode THEN off ELSE @]

\* FileManager.adjust_scroll
adjust_scroll(s) ==
    LET visible_height == s.height - ChromeRows
        off == IF s.selected_index < s.scroll_offset
               THEN s.selected_index
               ELSE IF s.selected_index >= s.scroll_offset + visible_height
               THEN s.selected_index - visible_height + 1
               ELSE s.scroll_offset
    IN [s EXCEPT !.scroll_offset = off,
                 !.panel_scroll_offset[s.active_panel] =
                     IF s.dual_panel_mode THEN off ELSE @]

\* FileManager.navigate_up
navigate_up(s) ==
    IF s.selected_index > 0
    THEN adjust_scroll(
           [s EXCEPT !.selected_index = @ - 1,
                     !.panel_selected_index[s.active_panel] =
                         IF s.dual_panel_mode THEN s.selected_index - 1 ELSE @])
    ELSE s

\* FileManager.navigate_down
navigate_down(s) ==
    IF s.selected_index < Len(s.files) - 1
    THEN adjust_scroll(
           [s EXCEPT !.selected_index = @ + 1,
                     !.panel_selected_index[s.active_panel] =
                         IF s.dual_panel_mode THEN s.selected_index + 1 ELSE @])
    ELSE s

\* FileManager.navigate_left
navigate_left(s) ==
    LET t1 == IF s.dual_panel_mode THEN sync_to_panels(s) ELSE s
        t2 == IF t1.current_path # Root
              THEN [t1 EXCEPT !.current_path = Parent(@),
                              !.selected_index = 0,
                              !.scroll_offset = 0]
              ELSE t1
        t3 == IF t2.dual_panel_mode
              THEN [t2 EXCEPT !.panel_paths[t2.active_panel] = t2.current_path,
                              !.panel_selected_index[t2.active_panel] = 0,
                              !.panel_scroll_offset[t2.active_panel] = 0]
              ELSE t2
    IN refresh_files(t3)

\* FileManager.open_file; launched tells whether subprocess.run could start
\* xdg-open.
open_file(s, launched) ==
    IF s.files = << >> \/ s.selected_index >= Len(s.files) THEN s
    ELSE IF s.files[s.selected_index + 1][2] THEN s
    ELSE show_message(s, IF launched THEN "Opening" ELSE "Error opening file")

\* An enter that moves to the directory before it probes it.
navigate_right_commits(s, launched) ==
    IF s.files = << >> THEN s
    ELSE LET t1 == IF s.dual_panel_mode THEN sync_to_panels(s) ELSE s
         IN IF s.selected_index >= Len(s.files)
            THEN Crash(t1)                 \* IndexError at self.files[...]
            ELSE LET selected_file == s.files[s.selected_index + 1]
                     new_path == Join(s.current_path, selected_file[1])
                     probe == ListDir(s.fs, new_path, TRUE)
                 IN IF selected_file[2]
                    THEN IF probe.status = "perm"
                         THEN show_message([t1 EXCEPT !.current_path = new_path,
                                                      !.selected_index = 0,
                                                      !.scroll_offset = 0],
                                           "Permission denied")
                         ELSE IF probe.status = "err"
                         THEN Crash(t1)    \* FileNotFoundError is not caught
                         ELSE LET t2 == [t1 EXCEPT !.current_path = new_path,
                                                   !.selected_index = 0,
                                                   !.scroll_offset = 0]
                                  t3 == IF t2.dual_panel_mode
                                        THEN [t2 EXCEPT
                                               !.panel_paths[t2.active_panel] = new_path,
                                               !.panel_selected_index[t2.active_panel] = 0,
                                               !.panel_scroll_offset[t2.active_panel] = 0]
                                        ELSE t2
                              IN refresh_files(t3)
                    ELSE open_file(t1, launched)

\* FileManager.navigate_right
navigate_right(s, launched) ==
    IF s.files = << >> THEN s
    ELSE LET t1 == IF s.dual_panel_mode THEN sync_to_panels(s) ELSE s
         IN IF s.selected_index >= Len(s.files)
            THEN Crash(t1)                 \* IndexError at self.files[...]
            ELSE LET selected_file == s.files[s.selected_index + 1]
                     new_path == Join(s.current_path, selected_file[1])
                     probe == ListDir(s.fs, new_path, TRUE)
                 IN IF selected_file[2]
                    THEN IF probe.status = "perm"
                         THEN show_message(t1, "Permission denied")
                         ELSE IF probe.status = "err"
                         THEN Crash(t1)    \* FileNotFoundError is not caught
                         ELSE LET t2 == [t1 EXCEPT !.current_path = new_path,
                                                   !.selected_index = 0,
                                                   !.scroll_offset = 0]
                                  t3 == IF t2.dual_panel_mode
                                        THEN [t2 EXCEPT
                                               !.panel_paths[t2.active_panel] = new_path,
                                               !.panel_selected_index[t2.active_panel] = 0,
                                               !.panel_scroll_offset[t2.active_panel] = 0]
                                        ELSE t2
                              IN refresh_files(t3)
                    ELSE open_file(t1, launched)

\* FileManager.enter_directory
enter_directory(s, launched) ==
    IF s.files = << >> THEN s
    ELSE IF s.selected_index >= Len(s.files) THEN Crash(s)
    ELSE IF s.files[s.selected_index + 1][2] THEN navigate_right(s, launched)
    ELSE open_file(s, launched)

---------------------------------------------------------------------------
(* Multi-selection, search and filter.                                     *)

\* FileManager.toggle_selection
toggle_selection(s) ==
    IF s.files = << >> \/ s.selected_index >= Len(s.files) THEN s
    ELSE IF s.selected_index \in s.selected_files
    THEN [s EXCEPT !.selected_files = @ \ {s.selected_index},
                   !.message = "Deselected"]
    ELSE [s EXCEPT !.selected_files = @ \cup {s.selected_index},
                   !.message = "Selected"]

\* FileManager.clear_selection
clear_selection(s) ==
    [s EXCEPT !.selected_files = {},
              !.message = IF s.selected_files # {}
                          THEN "Cleared selections" ELSE "No files selected"]

\* FileManager.select_all
select_all(s) ==
    LET all == 0..(Len(s.files) - 1)
    IN [s EXCEPT !.selected_files = @ \cup all,
                 !.message = IF all \ s.selected_files # {}
                             THEN "Selected additional files"
                             ELSE "All files already selected"]

\* The test of the loop of apply_search_filter on one entry.
Matches(s, e) ==
    IF s.search_mode /\ s.search_query # << >>
    THEN Contains(Lower(e[1]), s.search_query)
    ELSE IF s.filter_mode /\ s.filter_extension # << >>
    THEN EndsWith(Lower(e[1]), s.filter_extension)
    ELSE FALSE

\* An apply_search_filter that filters the entries on screen instead of
\* the snapshot.
apply_search_filter_narrows(s) ==
    LET orig == IF s.original_files = << >> THEN s.files ELSE s.original_files
        filtered_files == SelectSeq(s.files, LAMBDA e : Matches(s, e))
        t == [s EXCEPT !.original_files = orig,
                       !.files = filtered_files,
                       !.selected_index = 0,
                       !.scroll_offset = 0,
                       !.selected_files = {}]
    IN IF s.dual_panel_mode
       THEN [t EXCEPT !.panel_files[s.active_panel] = filtered_files,
                      !.panel_selected_index[s.active_panel] = 0,
                      !.panel_scroll_offset[s.active_panel] = 0,
                      !.panel_selected_files[s.active_panel] = {}]
       ELSE t

\* FileManager.apply_search_filter
apply_search_filter(s) ==
    LET orig == IF s.original_files = << >> THEN s.files ELSE s.original_files
        filtered_files == SelectSeq(orig, LAMBDA e : Matches(s, e))
        t == [s EXCEPT !.original_files = orig,
                       !.files = filtered_files,
                       !.selected_index = 0,
                       !.scroll_offset = 0,
                       !.selected_files = {}]
    IN IF s.dual_panel_mode
       THEN [t EXCEPT !.panel_files[s.active_panel] = filtered_files,
                      !.panel_selected_index[s.active_panel] = 0,
                      !.panel_scroll_offset[s.active_panel] = 0,
                      !.panel_selected_files[s.active_panel] = {}]
       ELSE t

\* A clear_search_filter that forgets the snapshot without restoring it.
clear_search_filter_keeps(s) ==
    [s EXCEPT !.original_files = << >>,
              !.search_mode = FALSE,
              !.filter_mode = FALSE,
              !.search_query = << >>,
              !.filter_extension = << >>,
              !.selected_index = 0,
              !.scroll_offset = 0,
              !.selected_files = {},
              !.message = "Search/filter cleared"]

\* FileManager.clear_search_filter
clear_search_filter(s) ==
    LET restored == IF s.original_files # << >> THEN s.original_files ELSE s.files
        t == [s EXCEPT !.files = restored,
                       !.original_files = << >>,
                       !.search_mode = FALSE,
                       !.filter_mode = FALSE,
                       !.search_query = << >>,
                       !.filter_extension = << >>,
                       !.selected_index = 0,
                       !.scroll_offset = 0,
                       !.selected_files = {},
                       !.message = "Search/filter cleared"]
    IN IF s.dual_panel_mode
       THEN [t EXCEPT !.panel_files[s.active_panel] = restored,
                      !.panel_selected_index[s.active_panel] = 0,
                      !.panel_scroll_offset[s.active_panel] = 0,
                      !.panel_selected_files[s.active_panel] = {}]
       ELSE t

\* What get_dialog_input returns: None on ESC (cancel), else the text.
DialogCancel == [cancel |-> TRUE, text |-> << >>]
DialogText(x) == [cancel |-> FALSE, text |-> x]

\* The key codes of curses that get_dialog_input tests.
KEY_DOWN == 258
KEY_UP == 259
KEY_LEFT == 260
KEY_RIGHT == 261
KEY_HOME == 262
KEY_BACKSPACE == 263
KEY_ENTER == 343
KEY_END == 360

\* No dialog is open.
NoDialog ==
    [max_length |-> 0, input_str |-> << >>, cursor_pos |-> 0, returned |-> "no"]

\* get_dialog_input before its first key.
DialogStart(max_length) ==
    [max_length |-> max_length, input_str |-> << >>, cursor_pos |-> 0,
     returned |-> "no"]

\* A round of get_dialog_input that inserts without the test of the
\* length.
dialog_key_unbounded(d, key) ==
    IF key = 27 THEN [d EXCEPT !.returned = "esc"]
    ELSE IF key \in {10, 13, KEY_ENTER} THEN [d EXCEPT !.returned = "enter"]
    ELSE IF key \in {KEY_BACKSPACE, 127, 8}
    THEN IF d.cursor_pos > 0
         THEN [d EXCEPT !.input_str = SubSeq(@, 1, d.cursor_pos - 1) \o
                                      SubSeq(@, d.cursor_pos + 1, Len(@)),
                        !.cursor_pos = @ - 1]
         ELSE d
    ELSE IF key = KEY_LEFT
    THEN IF d.cursor_pos > 0 THEN [d EXCEPT !.cursor_pos = @ - 1] ELSE d
    ELSE IF key = KEY_RIGHT
    THEN IF d.cursor_pos < Len(d.input_str)
         THEN [d EXCEPT !.cursor_pos = @ + 1] ELSE d
    ELSE IF key \in {KEY_HOME, 1} THEN [d EXCEPT !.cursor_pos = 0]
    ELSE IF key \in {KEY_END, 5} THEN [d EXCEPT !.cursor_pos = Len(d.input_str)]
    ELSE IF 32 <= key /\ key <= 126
    THEN [d EXCEPT !.input_str = SubSeq(@, 1, d.cursor_pos) \o << key >> \o
                                 SubSeq(@, d.cursor_pos + 1, Len(@)),
                   !.cursor_pos = @ + 1]
    ELSE d

\* One round of the loop of get_dialog_input on the key that getch()
\* returned.
dialog_key(d, key) ==
    IF key = 27 THEN [d EXCEPT !.returned = "esc"]
    ELSE IF key \in {10, 13, KEY_ENTER} THEN [d EXCEPT !.returned = "enter"]
    ELSE IF key \in {KEY_BACKSPACE, 127, 8}
    THEN IF d.cursor_pos > 0
         THEN [d EXCEPT !.input_str = SubSeq(@, 1, d.cursor_pos - 1) \o
                                      SubSeq(@, d.cursor_pos + 1, Len(@)),
                        !.cursor_pos = @ - 1]
         ELSE d
    ELSE IF key = KEY_LEFT
    THEN IF d.cursor_pos > 0 THEN [d EXCEPT !.cursor_pos = @ - 1] ELSE d
    ELSE IF key = KEY_RIGHT
    THEN IF d.cursor_pos < Len(d.input_str)
         THEN [d EXCEPT !.cursor_pos = @ + 1] ELSE d
    ELSE IF key \in {KEY_HOME, 1} THEN [d EXCEPT !.cursor_pos = 0]
    ELSE IF key \in {KEY_END, 5} THEN [d EXCEPT !.cursor_pos = Len(d.input_str)]
    ELSE IF 32 <= key /\ key <= 126
    THEN IF Len(d.input_str) < d.max_length - 1
         THEN [d EXCEPT !.input_str = SubSeq(@, 1, d.cursor_pos) \o << key >> \o
                                      SubSeq(@, d.cursor_pos + 1, Len(@)),
                        !.cursor_pos = @ + 1]
         ELSE d
    ELSE d

\* The value get_dialog_input returns when it has ended as d tells.
dialog_result(d) ==
    IF d.returned = "esc" THEN DialogCancel ELSE DialogText(d.input_str)

\* A search dialog whose ESC is taken for the empty query, which clears
\* the search or filter.
start_search_esc_clears(s, inp) ==
    IF ~inp.cancel /\ Strip(inp.text) # << >>
    THEN show_message(
           apply_search_filter([s EXCEPT !.search_query = Lower(inp.text),
                                         !.search_mode = TRUE,
                                         !.filter_mode = FALSE]),
           "Searching for")
    ELSE clear_search_filter(s)

\* FileManager.start_search
start_search(s, inp) ==
    IF inp.cancel THEN show_message(s, "Search cancelled")
    ELSE IF Strip(inp.text) # << >>
    THEN show_message(
           apply_search_filter([s EXCEPT !.search_query = Lower(inp.text),
                                         !.search_mode = TRUE,
                                         !.filter_mode = FALSE]),
           "Searching for")
    ELSE clear_search_filter(s)

\* A start_filter that leaves the search switched on.
start_filter_keeps_search(s, inp) ==
    IF inp.cancel THEN show_message(s, "Filter cancelled")
    ELSE IF Strip(inp.text) # << >>
    THEN LET e   == Strip(Lower(inp.text))
             ext == IF StartsWith(e, << 46 >>) THEN e ELSE << 46 >> \o e
         IN show_message(
              apply_search_filter([s EXCEPT !.filter_extension = ext,
                                            !.filter_mode = TRUE]),
              "Filtering by")
    ELSE clear_search_filter(s)

\* FileManager.start_filter
start_filter(s, inp) ==
    IF inp.cancel THEN show_message(s, "Filter cancelled")
    ELSE IF Strip(inp.text) # << >>
    THEN LET e   == Strip(Lower(inp.text))
             ext == IF StartsWith(e, << 46 >>) THEN e ELSE << 46 >> \o e
         IN show_message(
              apply_search_filter([s EXCEPT !.filter_extension = ext,
                                            !.filter_mode = TRUE,
                                            !.search_mode = FALSE]),
              "Filtering by")
    ELSE clear_search_filter(s)

\* A toggle that lists only the active panel again.
toggle_hidden_active_only(s) ==
    LET u == [s EXCEPT !.show_hidden = ~@]
        t == IF u.dual_panel_mode
             THEN LET r == refresh_panel_files(u, u.active_panel)
                  IN [r EXCEPT !.files = r.panel_files[r.active_panel]]
             ELSE refresh_files(u)
    IN show_message(t, IF t.show_hidden THEN "Hidden files: ON"
                                        ELSE "Hidden files: OFF")

\* FileManager.toggle_hidden
toggle_hidden(s) ==
    LET t == refresh_files([s EXCEPT !.show_hidden = ~@])
    IN show_message(t, IF t.show_hidden THEN "Hidden files: ON"
                                        ELSE "Hidden files: OFF")

\* The F5 branch of FileManager.run.
refresh_key(s) == show_message(refresh_files(s), "Refreshed")

\* The Tab branch of FileManager.run.
tab_key(s) ==
    IF s.dual_panel_mode THEN switch_panel(s)
    ELSE show_message(s, "Tab only works in dual panel mode")

\* str(path) of an absolute path: '/' for the root, else '/' and the name
\* for each component.
RECURSIVE PathStr(_)
PathStr(p) ==
    IF p = << >> THEN << 47 >>
    ELSE IF Len(p) = 1 THEN << 47 >> \o p[1]
    ELSE PathStr(SubSeq(p, 1, Len(p) - 1)) \o << 47 >> \o p[Len(p)]

\* A save_current_directory that writes the stored path of the left panel.
save_current_directory_left(s, writable) ==
    IF s.cd_on_exit /\ writable
    THEN [s EXCEPT !.temp_file = << PathStr(s.panel_paths[0]) >>]
    ELSE s

\* FileManager.save_current_directory; writable tells whether open() and
\* write() on the temp file succeed (a failure is passed over in silence).
save_current_directory(s, writable) ==
    IF s.cd_on_exit /\ writable
    THEN [s EXCEPT !.temp_file = << PathStr(s.current_path) >>]
    ELSE s

\* An ESC branch that quits whether or not an overlay is active.
escape_key_quits(s, writable) ==
    [save_current_directory(s, writable) EXCEPT !.running = "quit"]

\* The backslash / ESC branch of FileManager.run.
escape_key(s, writable) ==
    IF s.search_mode \/ s.filter_mode THEN clear_search_filter(s)
    ELSE [save_current_directory(s, writable) EXCEPT !.running = "quit"]

\* The 'q' branch of FileManager.run.
quit_key(s, writable) ==
    [save_current_directory(s, writable) EXCEPT !.running = "quit"]

---------------------------------------------------------------------------
(* Delete.                                                                 *)

\* The indices of a set in ascending order (iteration over a set of small
\* ints).
RECURSIVE SeqOfSet(_)
SeqOfSet(S) ==
    IF S = {} THEN << >>
    ELSE LET m == CHOOSE x \in S : \A y \in S : x <= y
         IN << m >> \o SeqOfSet(S \ {m})

\* The paths that copy_file, cut_file and delete_file take from the
\* selection: the multi-selection when there is one, else the entry under
\* the cursor.
Targets(s) ==
    IF s.selected_files # {}
    THEN LET idx == SeqOfSet({ i \in s.selected_files : i < Len(s.files) })
         IN [k \in 1..Len(idx) |-> Join(s.current_path, s.files[idx[k] + 1][1])]
    ELSE IF s.files = << >> \/ s.selected_index >= Len(s.files) THEN << >>
    ELSE << Join(s.current_path, s.files[s.selected_index + 1][1]) >>

\* A confirmation test that takes 'n' for a yes too.
IsYes_or_n(key) == key \in {121, 89, 110}

\* key in [ord('y'), ord('Y')]
IsYes(key) == key \in {121, 89}

\* A directory below which some directory cannot be read: shutil.rmtree
\* raises in the middle of its work.
HasUnreadable(f, p) ==
    \E r \in DOMAIN f : f[r] = "xdir" /\ IsUnder(r, p)

\* What rmtree may have removed below p before it raised: any of the
\* entries that hold no unreadable directory, depending on the order of
\* os.scandir.
Removable(f, p) ==
    { q \in DOMAIN f : IsUnder(q, p) /\ q # p /\ ~HasUnreadable(f, q) }

\* One round of the deletion loop of delete_file on path p; gone is the
\* set of entries a failing rmtree removed before it raised.
delete_one(f, p, gone) ==
    IF ~Exists(f, p) THEN [ok |-> FALSE, fs |-> f]
    ELSE IF f[p] = "file" \/ ~HasUnreadable(f, p)
    THEN [ok |-> TRUE, fs |-> RemoveTree(f, p)]
    ELSE [ok |-> FALSE,
          fs |-> [q \in { r \in DOMAIN f :
                            ~\E g \in gone \cap Removable(f, p) : IsUnder(r, g) }
                    |-> f[q]]]

\* A deletion loop that gives up at the first target it cannot delete.
RECURSIVE delete_loop_stops(_, _, _)
delete_loop_stops(f, targets, gone) ==
    IF targets = << >> THEN [fs |-> f, deleted_count |-> 0, errors |-> 0]
    ELSE LET one == delete_one(f, Head(targets), gone)
         IN IF ~one.ok THEN [fs |-> one.fs, deleted_count |-> 0, errors |-> 1]
            ELSE LET rest == delete_loop_stops(one.fs, Tail(targets), gone)
                 IN [fs |-> rest.fs,
                     deleted_count |-> rest.deleted_count + 1,
                     errors |-> rest.errors]

\* The deletion loop of delete_file.
RECURSIVE delete_loop(_, _, _)
delete_loop(f, targets, gone) ==
    IF targets = << >> THEN [fs |-> f, deleted_count |-> 0, errors |-> 0]
    ELSE LET one  == delete_one(f, Head(targets), gone)
             rest == delete_loop(one.fs, Tail(targets), gone)
         IN [fs |-> rest.fs,
             deleted_count |-> rest.deleted_count + (IF one.ok THEN 1 ELSE 0),
             errors |-> rest.errors + (IF one.ok THEN 0 ELSE 1)]

\* Whether delete_file asks its first question.
DeleteAsks(s) == Targets(s) # << >>

\* A check for non-empty directories that finds none.
NonEmptyDirs_none(s) == {}

\* The directories among the targets that are not empty.
NonEmptyDirs(s) ==
    { k \in 1..Len(Targets(s)) :
        /\ IsDir(s.fs, Targets(s)[k])
        /\ Children(s.fs, Targets(s)[k]) # {} }

\* Whether delete_file asks its second question, after a first 'y'.
DeleteAsksAgain(s) ==
    /\ DeleteAsks(s)
    /\ ~\E k \in 1..Len(Targets(s)) :
          Exists(s.fs, Targets(s)[k]) /\ s.fs[Targets(s)[k]] = "xdir"
    /\ NonEmptyDirs(s) # {}

\* FileManager.delete_file; key and key2 are the keys read by the two
\* confirmation prompts.
delete_file(s, key, key2, gone) ==
    LET files_to_delete == Targets(s)
    IN IF files_to_delete = << >> THEN s
       ELSE IF IsYes(key)
       THEN IF \E k \in 1..Len(files_to_delete) :
                  /\ Exists(s.fs, files_to_delete[k])
                  /\ s.fs[files_to_delete[k]] = "xdir"
            THEN Crash(s)           \* PermissionError of filepath.iterdir()
            ELSE IF NonEmptyDirs(s) # {} /\ ~IsYes(key2)
            THEN show_message(s, "Delete cancelled")
            ELSE LET r  == delete_loop(s.fs, files_to_delete, gone)
                     t1 == [s EXCEPT !.fs = r.fs, !.selected_files = {}]
                     t2 == IF r.deleted_count > 0
                           THEN show_message(t1, "Deleted") ELSE t1
                     t3 == IF r.errors > 0
                           THEN show_message(t2, "Errors") ELSE t2
                     t4 == [t3 EXCEPT !.selected_index =
                               IF @ >= Len(s.files)
                               THEN Max0(Len(s.files) - 1) ELSE @]
                 IN refresh_files(t4)
       ELSE show_message(s, "Delete cancelled")

---------------------------------------------------------------------------
(* Clipboard.                                                              *)

\* A copy that adds its paths to the ones the clipboard holds.
copy_file_appends(s) ==
    IF s.selected_files = {} /\ Targets(s) = << >> THEN s
    ELSE [s EXCEPT !.clipboard = @ \o Targets(s),
                   !.clipboard_action = "copy",
                   !.message = "Copied"]

\* FileManager.copy_file
copy_file(s) ==
    IF s.selected_files = {} /\ Targets(s) = << >> THEN s
    ELSE [s EXCEPT !.clipboard = Targets(s),
                   !.clipboard_action = "copy",
                   !.message = "Copied"]

\* FileManager.cut_file
cut_file(s) ==
    IF s.selected_files = {} /\ Targets(s) = << >> THEN s
    ELSE [s EXCEPT !.clipboard = Targets(s),
                   !.clipboard_action = "cut",
                   !.message = "Cut"]

\* os.makedirs: p and the missing directories above it.
MakeDirs(f, p) ==
    [q \in DOMAIN f \cup { SubSeq(p, 1, k) : k \in 0..Len(p) } |->
        IF q \in DOMAIN f THEN f[q] ELSE "dir"]

\* No path above p (p excluded) is a file, so that os.makedirs can make p.
CanMakeDirs(f, p) ==
    \A k \in 0..(Len(p) - 1) :
        Exists(f, SubSeq(p, 1, k)) => f[SubSeq(p, 1, k)] # "file"

\* shutil.copytree(src, dst) of a readable directory: everything but what
\* lies in unreadable directories is copied; ok tells whether all was.
copytree(f, src, dst) ==
    IF f[src] = "xdir" \/ ~CanMakeDirs(f, dst) THEN [ok |-> FALSE, fs |-> f]
    ELSE LET sub == { r \in DOMAIN f :
                        /\ IsUnder(r, src)
                        /\ ~\E x \in DOMAIN f :
                              f[x] = "xdir" /\ IsUnder(r, x) /\ IsUnder(x, src) }
             img(r) == dst \o SubSeq(r, Len(src) + 1, Len(r))
             g == MakeDirs(f, Parent(dst))
         IN [ok |-> ~HasUnreadable(f, src),
             fs |-> [q \in DOMAIN g \cup { img(r) : r \in sub } |->
                       IF \E r \in sub : img(r) = q
                       THEN f[CHOOSE r \in sub : img(r) = q]
                       ELSE g[q]]]

\* A round that skips only the destinations that are directories and
\* writes over the files.
paste_one_overwrites(f, source, dest, action) ==
    IF Exists(f, dest) /\ IsDir(f, Parent(dest)) /\ f[dest] # "file"
    THEN [ok |-> FALSE, conflict |-> TRUE, fs |-> f]
    ELSE IF action = "copy"
    THEN IF IsDir(f, source)
         THEN LET c == copytree(f, source, dest)
              IN [ok |-> c.ok, conflict |-> FALSE, fs |-> c.fs]
         ELSE IF Exists(f, source) /\ IsDir(f, Parent(dest))
         THEN [ok |-> TRUE, conflict |-> FALSE, fs |-> CopyTree(f, source, dest)]
         ELSE [ok |-> FALSE, conflict |-> FALSE, fs |-> f]
    ELSE IF action = "cut"
    THEN IF ~Exists(f, source) \/ IsUnder(dest, source)
         THEN [ok |-> FALSE, conflict |-> FALSE, fs |-> f]
         ELSE IF IsDir(f, Parent(dest))
         THEN [ok |-> TRUE, conflict |-> FALSE,
               fs |-> RemoveTree(CopyTree(f, source, dest), source)]
         ELSE IF IsDir(f, source)
         THEN \* os.rename fails; shutil.move copies the tree, then removes it
              LET c == copytree(f, source, dest)
              IN [ok |-> c.ok, conflict |-> FALSE,
                  fs |-> IF c.ok THEN RemoveTree(c.fs, source) ELSE c.fs]
         ELSE [ok |-> FALSE, conflict |-> FALSE, fs |-> f]
    ELSE [ok |-> TRUE, conflict |-> FALSE, fs |-> f]

\* One round of the loop of paste_file: the result of the copy or the move
\* of source to dest.  conflict tells that dest existed.
paste_one(f, source, dest, action) ==
    IF Exists(f, dest) /\ IsDir(f, Parent(dest))
    THEN [ok |-> FALSE, conflict |-> TRUE, fs |-> f]
    ELSE IF action = "copy"
    THEN IF IsDir(f, source)
         THEN LET c == copytree(f, source, dest)
              IN [ok |-> c.ok, conflict |-> FALSE, fs |-> c.fs]
         ELSE IF Exists(f, source) /\ IsDir(f, Parent(dest))
         THEN [ok |-> TRUE, conflict |-> FALSE, fs |-> CopyTree(f, source, dest)]
         ELSE [ok |-> FALSE, conflict |-> FALSE, fs |-> f]
    ELSE IF action = "cut"
    THEN IF ~Exists(f, source) \/ IsUnder(dest, source)
         THEN [ok |-> FALSE, conflict |-> FALSE, fs |-> f]
         ELSE IF IsDir(f, Parent(dest))
         THEN [ok |-> TRUE, conflict |-> FALSE,
               fs |-> RemoveTree(CopyTree(f, source, dest), source)]
         ELSE IF IsDir(f, source)
         THEN \* os.rename fails; shutil.move copies the tree, then removes it
              LET c == copytree(f, source, dest)
              IN [ok |-> c.ok, conflict |-> FALSE,
                  fs |-> IF c.ok THEN RemoveTree(c.fs, source) ELSE c.fs]
         ELSE [ok |-> FALSE, conflict |-> FALSE, fs |-> f]
    ELSE [ok |-> TRUE, conflict |-> FALSE, fs |-> f]

\* The loop of paste_file.
RECURSIVE paste_loop(_, _, _, _)
paste_loop(f, sources, cwd, action) ==
    IF sources = << >>
    THEN [fs |-> f, pasted_count |-> 0, errors |-> 0, conflicts |-> 0]
    ELSE LET one  == paste_one(f, Head(sources),
                               Join(cwd, BaseName(Head(sources))), action)
             rest == paste_loop(one.fs, Tail(sources), cwd, action)
         IN [fs |-> rest.fs,
             pasted_count |-> rest.pasted_count + (IF one.ok THEN 1 ELSE 0),
             errors |-> rest.errors + (IF one.ok THEN 0 ELSE 1),
             conflicts |-> rest.conflicts + (IF one.conflict THEN 1 ELSE 0)]

\* A paste that empties the clipboard after every paste of a cut batch,
\* whether or not an item was moved.
paste_file_clears(s) ==
    IF s.clipboard = << >> THEN show_message(s, "Nothing to paste")
    ELSE LET r  == paste_loop(s.fs, s.clipboard, s.current_path,
                              s.clipboard_action)
             t1 == [s EXCEPT !.fs = r.fs]
             t2 == IF s.clipboard_action = "cut"
                   THEN [t1 EXCEPT !.clipboard = << >>,
                                   !.clipboard_action = "None"]
                   ELSE t1
             t3 == IF r.pasted_count > 0
                   THEN show_message(t2, IF t2.clipboard_action = "copy"
                                         THEN "Copied files" ELSE "Moved files")
                   ELSE t2
             t4 == IF r.errors > 0 THEN show_message(t3, "Errors") ELSE t3
         IN refresh_files(t4)

\* FileManager.paste_file
paste_file(s) ==
    IF s.clipboard = << >> THEN show_message(s, "Nothing to paste")
    ELSE LET r  == paste_loop(s.fs, s.clipboard, s.current_path,
                              s.clipboard_action)
             t1 == [s EXCEPT !.fs = r.fs]
             t2 == IF s.clipboard_action = "cut" /\ r.pasted_count > 0
                   THEN [t1 EXCEPT !.clipboard = << >>,
                                   !.clipboard_action = "None"]
                   ELSE t1
             t3 == IF r.pasted_count > 0
                   THEN show_message(t2, IF t2.clipboard_action = "copy"
                                         THEN "Copied files" ELSE "Moved files")
                   ELSE t2
             t4 == IF r.errors > 0 THEN show_message(t3, "Errors") ELSE t3
         IN refresh_files(t4)

\* The message on screen after the paste of paste_file in state s, by what
\* it tells: count is the number of pasted items it names (0 when it names
\* none), errors the number of error texts it carries.  Each show_message
\* replaces the message of the one before.
paste_report(s) ==
    LET r  == paste_loop(s.fs, s.clipboard, s.current_path, s.clipboard_action)
        m0 == [count |-> 0, errors |-> 0]
        m1 == IF r.pasted_count > 0
              THEN [count |-> r.pasted_count, errors |-> 0] ELSE m0
        m2 == IF r.errors > 0
              THEN [count |-> 0,
                    errors |-> IF r.errors > ErrorCap THEN ErrorCap ELSE r.errors]
              ELSE m1
    IN m2

\* A copy of a directory into a directory below itself never ends before
\* the path names are too long; the model leaves such a paste out.
PasteBounded(s) ==
    \A k \in 1..Len(s.clipboard) :
        ~(/\ IsDir(s.fs, s.clipboard[k])
          /\ IsUnder(s.current_path, s.clipboard[k])
          /\ s.current_path # s.clipboard[k]
          /\ s.clipboard_action = "copy")

---------------------------------------------------------------------------
(* Rename and create.                                                      *)

\* '/' in name or name in ['.', '..']
InvalidName(name) ==
    Contains(name, << 47 >>) \/ name \in { << 46 >>, << 46, 46 >> }

\* rename_file without the test of new_path.exists(): the rename replaces
\* the entry that has the name.
rename_file_overwrites(s, inp) ==
    IF s.files = << >> \/ s.selected_index >= Len(s.files) THEN s
    ELSE LET filename == s.files[s.selected_index + 1][1]
             new_name == Strip(inp.text)
             old_path == Join(s.current_path, filename)
             new_path == Join(s.current_path, new_name)
         IN IF inp.cancel THEN show_message(s, "Rename cancelled")
            ELSE IF new_name # << >> /\ new_name # filename
            THEN IF InvalidName(new_name)
                 THEN show_message(s, "Invalid file name")
                 ELSE IF ~Exists(s.fs, old_path) \/ ~IsDir(s.fs, s.current_path)
                 THEN show_message(s, "Error renaming")
                 ELSE refresh_files(
                        [s EXCEPT !.fs = RemoveTree(
                                           CopyTree(RemoveTree(@, new_path),
                                                    old_path, new_path),
                                           old_path),
                                  !.message = "Renamed"])
            ELSE show_message(s, "Rename cancelled")

\* FileManager.rename_file
rename_file(s, inp) ==
    IF s.files = << >> \/ s.selected_index >= Len(s.files) THEN s
    ELSE LET filename == s.files[s.selected_index + 1][1]
             new_name == Strip(inp.text)
             old_path == Join(s.current_path, filename)
             new_path == Join(s.current_path, new_name)
         IN IF inp.cancel THEN show_message(s, "Rename cancelled")
            ELSE IF new_name # << >> /\ new_name # filename
            THEN IF InvalidName(new_name)
                 THEN show_message(s, "Invalid file name")
                 ELSE IF Exists(s.fs, new_path) /\ IsDir(s.fs, s.current_path)
                 THEN show_message(s, "File already exists")
                 ELSE IF ~Exists(s.fs, old_path) \/ ~IsDir(s.fs, s.current_path)
                 THEN show_message(s, "Error renaming")
                 ELSE refresh_files(
                        [s EXCEPT !.fs = RemoveTree(CopyTree(@, old_path, new_path),
                                                    old_path),
                                  !.message = "Renamed"])
            ELSE show_message(s, "Rename cancelled")

\* The body shared by create_directory and create_file; kind is "dir" or
\* "file".
create_entry(s, inp, kind) ==
    LET name == Strip(inp.text)
        new  == Join(s.current_path, name)
    IN IF inp.cancel \/ name = << >>
       THEN show_message(s, IF kind = "dir" THEN "Directory creation cancelled"
                                            ELSE "File creation cancelled")
       ELSE IF InvalidName(name)
       THEN show_message(s, IF kind = "dir" THEN "Invalid directory name"
                                            ELSE "Invalid file name")
       ELSE IF Exists(s.fs, new) /\ IsDir(s.fs, s.current_path)
       THEN show_message(s, IF kind = "dir" THEN "Directory already exists"
                                            ELSE "File already exists")
       ELSE IF ~IsDir(s.fs, s.current_path)
       THEN show_message(s, IF kind = "dir" THEN "Error creating directory"
                                            ELSE "Error creating file")
       ELSE refresh_files(
              [s EXCEPT !.fs = [q \in DOMAIN s.fs \cup {new} |->
                                  IF q = new THEN kind ELSE s.fs[q]],
                        !.message = IF kind = "dir" THEN "Created directory"
                                                    ELSE "Created file"])

\* FileManager.create_directory
create_directory(s, inp) == create_entry(s, inp, "dir")

\* FileManager.create_file
create_file(s, inp) == create_entry(s, inp, "file")

---------------------------------------------------------------------------
(* The inputs of the model.                                                *)

\* The keys answered to the prompts of delete_file: 'y', 'Y', 'n', ESC.
Keys == {121, 89, 110, 27}

\* What a failing rmtree of delete_file may have removed before it raised.
GoneChoices(s) ==
    SUBSET UNION { Removable(s.fs, Targets(s)[k]) :
                     k \in { j \in 1..Len(Targets(s)) :
                               /\ IsDir(s.fs, Targets(s)[j])
                               /\ s.fs[Targets(s)[j]] # "xdir"
                               /\ HasUnreadable(s.fs, Targets(s)[j]) } }

\* The keys typed in a text dialog: ESC, the three Enter keys, the three
\* backspaces, left, right, home and Ctrl+A, end and Ctrl+E, the printable
\* ' ', '/', 'a', '~', and keys the dialog has no branch for: a failed
\* getch(), Tab, 31, 128, up, down.
DialogKeys ==
    { 27, 10, 13, KEY_ENTER, KEY_BACKSPACE, 127, 8, KEY_LEFT, KEY_RIGHT,
      KEY_HOME, 1, KEY_END, 5, 32, 47, 97, 126, -1, 9, 31, 128, KEY_UP,
      KEY_DOWN }

\* What the user types in the search dialog: ESC, "", "A", "t".
SearchInputs ==
    { DialogCancel, DialogText(<< >>), DialogText(<< 65 >>), DialogText(<< 116 >>) }

\* What the user types in the filter dialog: ESC, "", "T", ".t".
FilterInputs ==
    { DialogCancel, DialogText(<< >>), DialogText(<< 84 >>),
      DialogText(<< 46, 116 >>) }

\* What the user types in the rename and create dialogs: ESC, "", " n",
\* "a.t", "..", "n/".
NameInputs ==
    { DialogCancel, DialogText(<< >>), DialogText(<< 32, 110 >>),
      DialogText(Name_at), DialogText(<< 46, 46 >>), DialogText(<< 110, 47 >>) }

---------------------------------------------------------------------------
(* Init: the state at the end of FileManager.__init__, started in '/'.     *)

Heights == ChromeRows..MaxHeight

\* FileManager.__init__ in a terminal of height h, on the filesystem f,
\* with --cd (cd) or without.
InitSelfWith(h, f, cd) ==
    refresh_files(sync_to_panels(
      [current_path |-> Root, selected_index |-> 0, scroll_offset |-> 0,
       files |-> << >>, show_hidden |-> FALSE, clipboard |-> << >>,
       clipboard_action |-> "None", message |-> "", selected_files |-> {},
       dual_panel_mode |-> FALSE, active_panel |-> 0,
       panel_paths |-> [i \in 0..1 |-> Root],
       panel_selected_index |-> [i \in 0..1 |-> 0],
       panel_scroll_offset |-> [i \in 0..1 |-> 0],
       panel_files |-> [i \in 0..1 |-> << >>],
       panel_selected_files |-> [i \in 0..1 |-> {}],
       search_mode |-> FALSE, search_query |-> << >>, filter_mode |-> FALSE,
       filter_extension |-> << >>, original_files |-> << >>,
       fs |-> f, height |-> h, running |-> "running",
       cd_on_exit |-> cd, temp_file |-> << >>, dialog |-> NoDialog]))

\* The same, started without --cd.
InitSelfOn(h, f) == InitSelfWith(h, f, FALSE)

InitSelf(h) == InitSelfOn(h, InitFs)

\* The variables take the values of the record t.
Becomes(t) ==
    /\ current_path = t.current_path
    /\ selected_index = t.selected_index
    /\ scroll_offset = t.scroll_offset
    /\ files = t.files
    /\ show_hidden = t.show_hidden
    /\ clipboard = t.clipboard
    /\ clipboard_action = t.clipboard_action
    /\ message = t.message
    /\ selected_files = t.selected_files
    /\ dual_panel_mode = t.dual_panel_mode
    /\ active_panel = t.active_panel
    /\ panel_paths = t.panel_paths
    /\ panel_selected_index = t.panel_selected_index
    /\ panel_scroll_offset = t.panel_scroll_offset
    /\ panel_files = t.panel_files
    /\ panel_selected_files = t.panel_selected_files
    /\ search_mode = t.search_mode
    /\ search_query = t.search_query
    /\ filter_mode = t.filter_mode
    /\ filter_extension = t.filter_extension
    /\ original_files = t.original_files
    /\ fs = t.fs
    /\ height = t.height
    /\ running = t.running
    /\ cd_on_exit = t.cd_on_exit
    /\ temp_file = t.temp_file
    /\ dialog = t.dialog

\* The variables take the values of the record t in the next state.
BecomesNext(t) ==
    /\ current_path' = t.current_path
    /\ selected_index' = t.selected_index
    /\ scroll_offset' = t.scroll_offset
    /\ files' = t.files
    /\ show_hidden' = t.show_hidden
    /\ clipboard' = t.clipboard
    /\ clipboard_action' = t.clipboard_action
    /\ message' = t.message
    /\ selected_files' = t.selected_files
    /\ dual_panel_mode' = t.dual_panel_mode
    /\ active_panel' = t.active_panel
    /\ panel_paths' = t.panel_paths
    /\ panel_selected_index' = t.panel_selected_index
    /\ panel_scroll_offset' = t.panel_scroll_offset
    /\ panel_files' = t.panel_files
    /\ panel_selected_files' = t.panel_selected_files
    /\ search_mode' = t.search_mode
    /\ search_query' = t.search_query
    /\ filter_mode' = t.filter_mode
    /\ filter_extension' = t.filter_extension
    /\ original_files' = t.original_files
    /\ fs' = t.fs
    /\ height' = t.height
    /\ running' = t.running
    /\ cd_on_exit' = t.cd_on_exit
    /\ temp_file' = t.temp_file
    /\ dialog' = t.dialog

Init ==
    /\ \E h \in Heights : Becomes(InitSelf(h))
    /\ fs_changes = 0

---------------------------------------------------------------------------
(* One action per branch of the loop of FileManager.run.                   *)

\* One round of the loop: a command, read while the loop runs, takes the
\* state to t.
Step(t) ==
    /\ running = "running"
    /\ fs_changes + (IF t.fs # fs THEN 1 ELSE 0) <= MaxFsChanges
    /\ BecomesNext(t)
    /\ fs_changes' = fs_changes + (IF t.fs # fs THEN 1 ELSE 0)

NavigateUp == Step(navigate_up(Self))

NavigateDown == Step(navigate_down(Self))

NavigateLeft == Step(navigate_left(Self))

NavigateRight ==
    \E launched \in BOOLEAN :
        Step(navigate_right(Self, launched))

EnterDirectory ==
    \E launched \in BOOLEAN :
        Step(enter_directory(Self, launched))

OpenFile ==
    \E launched \in BOOLEAN : Step(open_file(Self, launched))

CopyFile == Step(copy_file(Self))

CutFile == Step(cut_file(Self))

PasteFile == PasteBounded(Self) /\ Step(paste_file(Self))

\* 'd': the keys are those the prompts read; a prompt that is not shown
\* reads no key (0).
DeleteFile ==
    \E key \in IF DeleteAsks(Self) THEN Keys ELSE {0} :
    \E key2 \in IF IsYes(key) /\ DeleteAsksAgain(Self) THEN Keys ELSE {0} :
    \E gone \in GoneChoices(Self) :
        Step(delete_file(Self, key, key2, gone))

RenameFile ==
    \E inp \in NameInputs : Step(rename_file(Self, inp))

CreateFile ==
    \E inp \in NameInputs : Step(create_file(Self, inp))

CreateDirectory ==
    \E inp \in NameInputs :
        Step(create_directory(Self, inp))

ToggleSelection == Step(toggle_selection(Self))

SelectAll == Step(select_all(Self))

ClearSelection == Step(clear_selection(Self))

ToggleDualPanel == Step(toggle_dual_panel(Self))

TabKey == Step(tab_key(Self))

StartSearch ==
    \E inp \in SearchInputs :
        Step(start_search(Self, inp))

StartFilter ==
    \E inp \in FilterInputs :
        Step(start_filter(Self, inp))

EscapeKey == \E writable \in BOOLEAN : Step(escape_key(Self, writable))

ToggleHidden == Step(toggle_hidden(Self))

RefreshKey == Step(refresh_key(Self))

QuitKey == \E writable \in BOOLEAN : Step(quit_key(Self, writable))

\* A round of the loop without a key (getch() times out): draw_screen
\* drops a message older than 3 seconds.
MessageExpires ==
    /\ running = "running"
    /\ message # ""
    /\ message' = ""
    /\ UNCHANGED << current_path, selected_index, scroll_offset, files,
                    show_hidden, clipboard, clipboard_action, selected_files,
                    dual_panel_mode, active_panel, panel_paths,
                    panel_selected_index, panel_scroll_offset, panel_files,
                    panel_selected_files, search_mode, search_query,
                    filter_mode, filter_extension, original_files, fs, height,
                    running, cd_on_exit, temp_file, dialog, fs_changes >>

\* A key typed in an open text dialog.
DialogKey ==
    \E key \in DialogKeys :
        /\ dialog.max_length > 0
        /\ dialog.returned = "no"
        /\ Step([Self EXCEPT !.dialog = dialog_key(@, key)])

\* Another process removes an entry, with all below it.
ExternalRemove ==
    \E p \in DOMAIN fs \ {Root} :
        Step([Self EXCEPT !.fs = RemoveTree(fs, p)])

\* Another process takes the read permission of a directory away.
ExternalChmod ==
    \E p \in { q \in DOMAIN fs : fs[q] = "dir" } :
        Step([Self EXCEPT !.fs[p] = "xdir"])

\* The whole loop of FileManager.run.
Next ==
    \/ NavigateUp
    \/ NavigateDown
    \/ NavigateLeft
    \/ NavigateRight
    \/ EnterDirectory
    \/ OpenFile
    \/ CopyFile
    \/ CutFile
    \/ PasteFile
    \/ DeleteFile
    \/ RenameFile
    \/ CreateFile
    \/ CreateDirectory
    \/ ToggleSelection
    \/ SelectAll
    \/ ClearSelection
    \/ ToggleDualPanel
    \/ TabKey
    \/ StartSearch
    \/ StartFilter
    \/ EscapeKey
    \/ ToggleHidden
    \/ RefreshKey
    \/ QuitKey
    \/ MessageExpires
    \/ ExternalRemove
    \/ ExternalChmod

Spec == Init /\ [][Next]_vars

---------------------------------------------------------------------------
(* The state space of Spec is too large to enumerate.  Each specification  *)
(* below is Spec restricted to the commands that some group of properties  *)
(* is about; every behaviour of it is a behaviour of Spec.                 *)

\* One panel: browsing, multi-selection, search, delete, and the changes
\* that come from outside.
NextBrowse ==
    \/ NavigateUp
    \/ NavigateDown
    \/ NavigateLeft
    \/ NavigateRight
    \/ EnterDirectory
    \/ OpenFile
    \/ DeleteFile
    \/ ToggleSelection
    \/ SelectAll
    \/ ClearSelection
    \/ TabKey
    \/ StartSearch
    \/ EscapeKey
    \/ ToggleHidden
    \/ RefreshKey
    \/ QuitKey
    \/ MessageExpires
    \/ ExternalRemove
    \/ ExternalChmod

SpecBrowse == Init /\ [][NextBrowse]_vars

\* One panel: browsing with search and filter, and the changes that come
\* from outside.
NextOverlay ==
    \/ NavigateUp
    \/ NavigateDown
    \/ NavigateLeft
    \/ NavigateRight
    \/ StartSearch
    \/ StartFilter
    \/ EscapeKey
    \/ ToggleHidden
    \/ RefreshKey
    \/ MessageExpires
    \/ ExternalRemove
    \/ ExternalChmod

SpecOverlay == Init /\ [][NextOverlay]_vars

\* One panel, started on a filesystem with or without a directory that
\* cannot be read: multi-selection and delete.
InitDelete ==
    /\ \E h \in Heights : \E f \in {InitFs, DeepFs} : Becomes(InitSelfOn(h, f))
    /\ fs_changes = 0

NextDelete ==
    \/ NavigateUp
    \/ NavigateDown
    \/ NavigateLeft
    \/ NavigateRight
    \/ ToggleSelection
    \/ SelectAll
    \/ ToggleHidden
    \/ DeleteFile
    \/ MessageExpires
    \/ ExternalRemove

SpecDelete == InitDelete /\ [][NextDelete]_vars

\* One panel in a terminal of the largest height, started on a filesystem
\* where /c and / both hold a B.T: multi-selection, copy, cut and paste.
InitClipboard ==
    /\ Becomes(InitSelfOn(MaxHeight, TwinFs))
    /\ fs_changes = 0

NextClipboard ==
    \/ NavigateUp
    \/ NavigateDown
    \/ NavigateLeft
    \/ NavigateRight
    \/ ToggleSelection
    \/ CopyFile
    \/ CutFile
    \/ PasteFile

SpecClipboard == InitClipboard /\ [][NextClipboard]_vars

\* One panel in a terminal of the largest height, started on the
\* filesystem where /c holds a.t and B.T: the dialogs of rename, create
\* and search, with a multi-selection.
InitEdit ==
    /\ Becomes(InitSelfOn(MaxHeight, TwinFs))
    /\ fs_changes = 0

NextEdit ==
    \/ NavigateUp
    \/ NavigateDown
    \/ NavigateLeft
    \/ NavigateRight
    \/ ToggleSelection
    \/ StartSearch
    \/ RenameFile
    \/ CreateFile
    \/ CreateDirectory

SpecEdit == InitEdit /\ [][NextEdit]_vars

\* One panel started on every directory snapshot over SnapshotNames:
\* listing it, with and without hidden files.
InitListing ==
    /\ \E kinds \in [SnapshotNames -> {"none", "file", "dir"}] :
          Becomes(InitSelfOn(MaxHeight, SnapshotFs(kinds)))
    /\ fs_changes = 0

NextListing ==
    \/ ToggleHidden
    \/ RefreshKey
    \/ NavigateDown
    \/ MessageExpires

SpecListing == InitListing /\ [][NextListing]_vars

\* Two panels with the hidden-file toggle, on an unchanged filesystem.
NextDualView ==
    \/ ToggleDualPanel
    \/ TabKey
    \/ NavigateUp
    \/ NavigateDown
    \/ NavigateLeft
    \/ NavigateRight
    \/ ToggleHidden

SpecDualView == Init /\ [][NextDualView]_vars

\* Two panels with multi-selection.
NextDualSelect ==
    \/ ToggleDualPanel
    \/ TabKey
    \/ NavigateUp
    \/ NavigateDown
    \/ NavigateLeft
    \/ NavigateRight
    \/ ToggleSelection
    \/ RefreshKey

SpecDualSelect == Init /\ [][NextDualSelect]_vars

\* Two panels whose listings shrink.
NextDualHidden ==
    \/ ToggleDualPanel
    \/ TabKey
    \/ NavigateUp
    \/ NavigateDown
    \/ NavigateLeft
    \/ NavigateRight
    \/ ToggleHidden
    \/ RefreshKey
    \/ ExternalRemove

SpecDualHidden == Init /\ [][NextDualHidden]_vars

\* Two panels with search and filter.
NextDualSearch ==
    \/ ToggleDualPanel
    \/ TabKey
    \/ NavigateUp
    \/ NavigateDown
    \/ NavigateLeft
    \/ NavigateRight
    \/ StartSearch
    \/ EscapeKey
    \/ RefreshKey

SpecDualSearch == Init /\ [][NextDualSearch]_vars

---------------------------------------------------------------------------
(* Properties of the cursor and of the multi-selection.                    *)

\* C1: in every reachable state the working cursor of the active panel
\* satisfies 0 <= selected_index <= max(0, len(files) - 1).
C1_CursorInRange ==
    running = "running" =>
        /\ selected_index >= 0
        /\ selected_index <= Max0(Len(files) - 1)

\* C2: in every reachable state every index of the multi-selection of the
\* active panel is an index of its current entries.
C2_SelectionValid ==
    running = "running" =>
        \A i \in selected_files : i >= 0 /\ i < Len(files)

\* The commands that replace the entries of the active panel: a change of
\* directory, F5, the hidden toggle, an overlay applied or cleared, and the
\* refresh after a delete, paste, rename or create that changed the
\* filesystem.
ReplacesEntries ==
    \/ /\ NavigateLeft \/ NavigateRight \/ EnterDirectory
       /\ current_path' # current_path
    \/ RefreshKey
    \/ ToggleHidden
    \/ \E inp \in SearchInputs : ~inp.cancel /\ Step(start_search(Self, inp))
    \/ \E inp \in FilterInputs : ~inp.cancel /\ Step(start_filter(Self, inp))
    \/ (search_mode \/ filter_mode) /\ EscapeKey
    \/ /\ DeleteFile \/ PasteFile \/ RenameFile \/ CreateFile \/ CreateDirectory
       /\ fs' # fs

\* C3: right after a command that replaces the entries of the active
\* panel, the multi-selection that copy, cut and delete act on is empty.
C3_ReplacedEntriesUnselected ==
    [][ReplacesEntries /\ running' = "running" => selected_files' = {}]_vars

\* The rows of the listing that fit on the screen.
VisibleRows(s) == s.height - ChromeRows

\* The cursor of s is on one of the rows shown.
CursorShown(s) ==
    /\ s.scroll_offset <= s.selected_index
    /\ s.selected_index <= s.scroll_offset + VisibleRows(s) - 1

\* C4: with at least one visible row, after every cursor move (up or
\* down, clamped or not, also after a refresh shrank the listing) the
\* cursor is on one of the rows shown.
C4_CursorShownAfterMove ==
    (running = "running" /\ VisibleRows(Self) >= 1) =>
        /\ CursorShown(navigate_up(Self))
        /\ CursorShown(navigate_down(Self))

---------------------------------------------------------------------------
(* Properties of the overlay.                                              *)

\* An overlay is active in s.
OverlayActive(s) == s.search_mode \/ s.filter_mode

\* The states that s becomes when a search or a filter is applied to it.
Overlaid(s) ==
    { start_search(s, inp) :
        inp \in { i \in SearchInputs : ~i.cancel /\ Strip(i.text) # << >> } }
    \cup
    { start_filter(s, inp) :
        inp \in { i \in FilterInputs : ~i.cancel /\ Strip(i.text) # << >> } }

\* Applying any overlay to s and clearing it gives the entries of s back.
RoundTrip(s) ==
    \A a \in Overlaid(s) :
        OverlayActive(a) /\ clear_search_filter(a).files = s.files

\* C5 as stated: from every listing, with or without an overlay already
\* applied, an overlay applied and then cleared, with no refresh between,
\* leaves the entries as they were before it was applied.
C5_RoundTripAlways ==
    running = "running" => RoundTrip(Self)

\* C5: from a state with no overlay active, in one panel or two, an
\* overlay applied and then cleared, with no refresh between, leaves the
\* entries as they were before it was applied.
C5_RoundTripWithoutOverlay ==
    running = "running" =>
        \A s \in {Self, toggle_dual_panel(Self)} :
            ~OverlayActive(s) => RoundTrip(s)

\* C5: an overlay that hid an entry has been cleared: none is active, the
\* message tells of the clearing, and the entries, two or more, are the
\* listing of the directory again.
C5_Witness ==
    /\ running = "running"
    /\ message = "Search/filter cleared"
    /\ ~OverlayActive(Self)
    /\ original_files = << >>
    /\ Len(files) >= 2
    /\ files = ListDir(fs, current_path, show_hidden).entries
    /\ \E a \in Overlaid(Self) :
          Len(a.files) >= 1 /\ Len(a.files) < Len(files)

\* The directory of s has not changed since s listed it.
ListingFresh(s) ==
    ListDir(s.fs, s.current_path, s.show_hidden).entries =
        (IF OverlayActive(s) /\ s.original_files # << >>
         THEN s.original_files ELSE s.files)

\* C6: from a single-panel state whose directory is unchanged, the dual
\* toggle switched on and off again leaves the path, the cursor and the
\* scroll offset as they were.
C6_DualToggleRoundTrip ==
    (running = "running" /\ ~dual_panel_mode /\ ListingFresh(Self)) =>
        LET t == toggle_dual_panel(toggle_dual_panel(Self))
        IN /\ t.current_path = current_path
           /\ t.selected_index = selected_index
           /\ t.scroll_offset = scroll_offset

\* The cursor, selection, navigation and overlay commands.
PanelCommand ==
    \/ NavigateUp
    \/ NavigateDown
    \/ NavigateLeft
    \/ NavigateRight
    \/ EnterDirectory
    \/ ToggleSelection
    \/ SelectAll
    \/ ClearSelection
    \/ StartSearch
    \/ StartFilter
    \/ (search_mode \/ filter_mode) /\ EscapeKey

\* What is stored of panel i is the same before and after the step.
PanelUntouched(i) ==
    /\ panel_paths'[i] = panel_paths[i]
    /\ panel_files'[i] = panel_files[i]
    /\ panel_selected_index'[i] = panel_selected_index[i]
    /\ panel_scroll_offset'[i] = panel_scroll_offset[i]
    /\ panel_selected_files'[i] = panel_selected_files[i]

\* C7: in dual mode a cursor, selection, navigation or overlay command
\* leaves what is stored of the inactive panel as it was.
C7_InactivePanelUntouched ==
    [][(dual_panel_mode /\ PanelCommand /\ running' = "running")
          => PanelUntouched(1 - active_panel)]_vars

\* C8: after a change of directory of the active panel no overlay is
\* active and the snapshot of the previous directory is discarded.
C8_DirectoryChangeDropsOverlay ==
    [][(/\ NavigateLeft \/ NavigateRight \/ EnterDirectory
        /\ current_path' # current_path
        /\ running' = "running")
          => (~search_mode' /\ ~filter_mode' /\ original_files' = << >>)]_vars

\* C9: while an overlay is active the entries are the elements of
\* original_files that match it, in the order of original_files.
C9_OverlayIsFilteredSnapshot ==
    (running = "running" /\ OverlayActive(Self)) =>
        files = SelectSeq(original_files, LAMBDA e : Matches(Self, e))

---------------------------------------------------------------------------
(* Properties of delete.                                                   *)

\* C10: in one panel or two, delete_file removes nothing unless the first
\* key is 'y' or 'Y'; on any other key only the message changes, to the
\* cancellation, and the filesystem, the entries, the cursor and the
\* multi-selection stay.
C10_DeleteNeedsYes ==
    running = "running" =>
        \A s \in {Self, toggle_dual_panel(Self)} :
            DeleteAsks(s) =>
                \A key \in Keys : \A key2 \in Keys : \A gone \in GoneChoices(s) :
                    LET t == delete_file(s, key, key2, gone)
                    IN /\ t.fs # s.fs => key \in {121, 89}
                       /\ key \notin {121, 89} =>
                              t = [s EXCEPT !.message = "Delete cancelled"]

\* C10: the cursor is on a file that is still there and the delete was
\* cancelled.
C10_Witness ==
    /\ running = "running"
    /\ message = "Delete cancelled"
    /\ fs = InitFs
    /\ selected_files = {}
    /\ selected_index < Len(files)
    /\ ~files[selected_index + 1][2]
    /\ Exists(fs, Join(current_path, files[selected_index + 1][1]))

---------------------------------------------------------------------------
(* Delete: the second confirmation, the deletion loop, the state after.    *)

\* The batch of a delete in state s holds a directory that is not empty.
BatchHasNonEmptyDir(s) ==
    \E k \in 1..Len(Targets(s)) :
        /\ IsDir(s.fs, Targets(s)[k])
        /\ Children(s.fs, Targets(s)[k]) # {}

\* C11: when the batch of a delete holds at least one non-empty directory
\* and the key of the second confirmation is not 'y' or 'Y', nothing of the
\* batch is deleted (the files confirmed by the first 'y' included) and the
\* entries stay as they were, with one panel and with two.
C11_SecondRefusalDeletesNothing ==
    running = "running" =>
        \A s \in {Self, toggle_dual_panel(Self)} :
            BatchHasNonEmptyDir(s) =>
                \A key \in {121, 89} : \A key2 \in Keys \ {121, 89} :
                    \A gone \in GoneChoices(s) :
                        LET t == delete_file(s, key, key2, gone)
                        IN /\ t.fs = s.fs
                           /\ t.files = s.files
                           /\ t.panel_files = s.panel_files

\* A delete of a batch of a non-empty directory and a file was refused.
C11_Witness ==
    /\ message = "Delete cancelled"
    /\ fs_changes = 0
    /\ Len(Targets(Self)) = 2
    /\ BatchHasNonEmptyDir(Self)
    /\ \E k \in 1..2 : fs[Targets(Self)[k]] = "file"

\* The deletion loop of delete_file is reached in state s: there is a batch
\* and the check for non-empty directories of lines 662-666 does not raise.
DeleteExecutes(s) ==
    /\ Targets(s) # << >>
    /\ \A k \in 1..Len(Targets(s)) :
          Exists(s.fs, Targets(s)[k]) => s.fs[Targets(s)[k]] # "xdir"

\* unlink or rmtree of p succeeds on the filesystem f.
Deletable(f, p) ==
    /\ Exists(f, p)
    /\ f[p] = "file" \/ ~HasUnreadable(f, p)

\* C12: in the deletion loop every target is attempted on its own: a target
\* that cannot be deleted (it is gone, or rmtree is denied below it) never
\* keeps a later target from being attempted, and every target whose
\* deletion succeeds is removed from the filesystem.
C12_EveryTargetAttempted ==
    running = "running" =>
        \A s \in {Self, toggle_dual_panel(Self)} :
            DeleteExecutes(s) =>
                \A key \in {121, 89} : \A key2 \in {121, 89} :
                    \A gone \in GoneChoices(s) :
                        LET t == delete_file(s, key, key2, gone)
                        IN /\ t.running = "running"
                           /\ \A k \in 1..Len(Targets(s)) :
                                 Deletable(s.fs, Targets(s)[k])
                                     => ~Exists(t.fs, Targets(s)[k])

\* A delete of /c and /B.T failed below /c and removed /B.T after it.
C12_Witness ==
    /\ message = "Errors"
    /\ fs_changes = 1
    /\ Exists(fs, << Name_c >>)
    /\ HasUnreadable(fs, << Name_c >>)
    /\ ~Exists(fs, << Name_BT >>)
    /\ current_path = Root

\* C13: after a confirmed delete has run its loop, with one panel or with
\* two, the multi-selection of the active panel is empty and its cursor is
\* clamped to the refreshed entries:
\* selected_index <= max(0, len(files) - 1).
C13_DeleteClearsAndClamps ==
    running = "running" =>
        \A s \in {Self, toggle_dual_panel(Self)} :
            DeleteExecutes(s) =>
                \A key \in {121, 89} : \A key2 \in {121, 89} :
                    \A gone \in GoneChoices(s) :
                        LET t == delete_file(s, key, key2, gone)
                        IN /\ t.selected_files = {}
                           /\ t.selected_index <= Max0(Len(t.files) - 1)

---------------------------------------------------------------------------
(* Clipboard: staging and paste.                                           *)

\* The paths a copy or a cut stages in state s: those of the selected
\* entries when there is a multi-selection, else the one under the cursor.
Staged(s) ==
    IF s.selected_files # {}
    THEN { Join(s.current_path, s.files[i + 1][1]) :
             i \in { j \in s.selected_files : j < Len(s.files) } }
    ELSE IF s.files = << >> \/ s.selected_index >= Len(s.files) THEN {}
    ELSE { Join(s.current_path, s.files[s.selected_index + 1][1]) }

\* The clipboard of t holds exactly the paths of S, each once, with action.
HoldsExactly(t, S, action) ==
    /\ { t.clipboard[k] : k \in 1..Len(t.clipboard) } = S
    /\ Len(t.clipboard) = Cardinality(S)
    /\ t.clipboard_action = action

\* C14: every copy and every cut that stages at least one path replaces the
\* whole clipboard: afterwards it holds exactly the paths staged by that
\* command, with that command's action, and nothing of an earlier batch.
C14_StagingReplacesClipboard ==
    running = "running" =>
        \A s \in {Self, toggle_dual_panel(Self)} :
            Staged(s) # {} =>
                /\ HoldsExactly(copy_file(s), Staged(s), "copy")
                /\ HoldsExactly(cut_file(s), Staged(s), "cut")

\* A cut staged its batch after an earlier copied batch had been pasted
\* (and so was still on the clipboard).
C14_Witness ==
    /\ message = "Cut"
    /\ clipboard_action = "cut"
    /\ fs_changes = 1
    /\ Staged(Self) # {}
    /\ HoldsExactly(Self, Staged(Self), "cut")

\* The destination of the k-th path of the clipboard for a paste in state
\* s: current_path / source.name.
Dest(s, k) == Join(s.current_path, BaseName(s.clipboard[k]))

\* A paste that leads from s to t moved at least one item of the clipboard:
\* its source is gone and its destination, which was free, exists.
Moved(s, t) ==
    \E k \in 1..Len(s.clipboard) :
        /\ Exists(s.fs, s.clipboard[k])
        /\ ~Exists(s.fs, Dest(s, k))
        /\ ~Exists(t.fs, s.clipboard[k])
        /\ Exists(t.fs, Dest(s, k))

\* C15: after a paste of a cut batch in which at least one item was moved
\* the clipboard is empty; after a paste of a cut batch in which no item
\* was moved, and after every paste of a copied batch, whatever its
\* outcome, the clipboard and its action are what they were.
C15_PasteClipboard ==
    running = "running" =>
        \A s \in {Self, toggle_dual_panel(Self)} :
            (s.clipboard # << >> /\ PasteBounded(s)) =>
                LET t == paste_file(s)
                    kept == /\ t.clipboard = s.clipboard
                            /\ t.clipboard_action = s.clipboard_action
                IN /\ (s.clipboard_action = "cut" /\ Moved(s, t))
                        => (t.clipboard = << >> /\ t.clipboard_action = "None")
                   /\ (s.clipboard_action = "cut" /\ ~Moved(s, t)) => kept
                   /\ s.clipboard_action = "copy" => kept

\* A paste of a cut batch moved one item, skipped another and emptied the
\* clipboard.
C15_Witness ==
    /\ message = "Errors"
    /\ clipboard = << >>
    /\ clipboard_action = "None"
    /\ fs_changes = 1
    /\ fs # TwinFs

\* The paths of the clipboard of s whose destination is free.
Free(s) ==
    SelectSeq(s.clipboard,
              LAMBDA p : ~Exists(s.fs, Join(s.current_path, BaseName(p))))

\* The copy or the move of source to the free destination dest succeeds
\* on f.
Pastable(f, source, dest, action) ==
    /\ Exists(f, source)
    /\ ~HasUnreadable(f, source)
    /\ IsDir(f, Parent(dest))
    /\ action = "cut" => ~IsUnder(dest, source)

\* C16: in a paste every path of the clipboard whose destination
\* current_path / name exists is skipped: the destination is not written
\* over, the source is neither moved nor copied (the filesystem ends as if
\* the path had not been in the batch), and the conflict is reported;
\* every other path of the batch is still processed.
C16_ConflictsSkipped ==
    running = "running" =>
        \A s \in {Self, toggle_dual_panel(Self)} :
            (s.clipboard # << >> /\ PasteBounded(s)) =>
                LET t == paste_file(s)
                    K == { k \in 1..Len(s.clipboard) : Exists(s.fs, Dest(s, k)) }
                IN /\ \A k \in K :
                        /\ t.fs[Dest(s, k)] = s.fs[Dest(s, k)]
                        /\ Exists(s.fs, s.clipboard[k])
                              => /\ Exists(t.fs, s.clipboard[k])
                                 /\ t.fs[s.clipboard[k]] = s.fs[s.clipboard[k]]
                   /\ t.fs = IF Free(s) = << >> THEN s.fs
                             ELSE paste_file([s EXCEPT !.clipboard = Free(s)]).fs
                   /\ K # {} => t.message = "Errors"
                   /\ \A k \in (1..Len(s.clipboard)) \ K :
                        Pastable(s.fs, s.clipboard[k], Dest(s, k),
                                 s.clipboard_action)
                            => /\ Exists(t.fs, Dest(s, k))
                               /\ s.clipboard_action = "cut"
                                      => ~Exists(t.fs, s.clipboard[k])

\* /c/a.t and /c/B.T were copied and pasted into /, which holds a B.T:
\* a.t was copied, B.T was skipped.
C16_Witness ==
    /\ message = "Errors"
    /\ clipboard_action = "copy"
    /\ clipboard = << << Name_c, Name_at >>, << Name_c, Name_BT >> >>
    /\ current_path = Root
    /\ fs_changes = 1
    /\ Exists(fs, << Name_at >>)

---------------------------------------------------------------------------
(* Failures of the filesystem and commands without effect.                 *)

\* The cursor of s is on an entry of its listing, or the listing is empty:
\* self.files[self.selected_index] raises no IndexError.
CursorOnEntry(s) == s.files = << >> \/ s.selected_index < Len(s.files)

\* C17: no failure of a call on the filesystem made while a command is
\* handled (entering a directory and delete included) ends the command
\* loop: after the command the loop is still running.
C17_FsFailureNeverStops ==
    running = "running" =>
        \A s \in {Self, toggle_dual_panel(Self)} :
            CursorOnEntry(s) =>
                /\ \A launched \in BOOLEAN :
                      /\ navigate_right(s, launched).running = "running"
                      /\ enter_directory(s, launched).running = "running"
                /\ navigate_left(s).running = "running"
                /\ refresh_key(s).running = "running"
                /\ \A key \in Keys : \A key2 \in Keys :
                      \A gone \in GoneChoices(s) :
                          delete_file(s, key, key2, gone).running = "running"

\* Entering the entry under the cursor of s fails: it is not a directory,
\* or it is a directory whose probe list(new_path.iterdir()) is denied.
EnterFails(s) ==
    /\ s.files # << >>
    /\ s.selected_index < Len(s.files)
    /\ LET e == s.files[s.selected_index + 1]
       IN \/ ~e[2]
          \/ ListDir(s.fs, Join(s.current_path, e[1]), TRUE).status = "perm"

\* C18: when entering the entry under the cursor fails (it is not a
\* directory, or the probe of the directory is denied), Right and Enter
\* change neither the path nor the entries nor the cursor nor the scroll
\* offset of the active panel.
C18_FailedEnterChangesNothing ==
    running = "running" =>
        \A s \in {Self, toggle_dual_panel(Self)} :
            EnterFails(s) =>
                \A launched \in BOOLEAN :
                    \A t \in {navigate_right(s, launched),
                               enter_directory(s, launched)} :
                        /\ t.current_path = s.current_path
                        /\ t.files = s.files
                        /\ t.selected_index = s.selected_index
                        /\ t.scroll_offset = s.scroll_offset
                        /\ t.running = "running"

\* Right on a directory that cannot be read was refused.
C18_Witness ==
    /\ message = "Permission denied"
    /\ fs[current_path] = "dir"
    /\ EnterFails(Self)
    /\ files[selected_index + 1][2]

\* C19: Left at the root of the filesystem is a no-op, with one panel and
\* with two: the path, the entries, the cursor, the scroll offset, the
\* multi-selection and an active search or filter stay as they were.
C19_LeftAtRootIsNoOp ==
    running = "running" =>
        \A s \in {Self, toggle_dual_panel(Self)} :
            s.current_path = Root =>
                LET t == navigate_left(s)
                IN /\ t.current_path = s.current_path
                   /\ t.files = s.files
                   /\ t.selected_index = s.selected_index
                   /\ t.scroll_offset = s.scroll_offset
                   /\ t.selected_files = s.selected_files
                   /\ t.search_mode = s.search_mode
                   /\ t.search_query = s.search_query
                   /\ t.filter_mode = s.filter_mode
                   /\ t.filter_extension = s.filter_extension
                   /\ t.original_files = s.original_files

\* The state of panel i in s: the working fields for the active panel, the
\* stored panel_* fields for the other one.
PanelView(s, i) ==
    IF i = s.active_panel
    THEN [path |-> s.current_path, entries |-> s.files,
          cursor |-> s.selected_index, scroll |-> s.scroll_offset,
          selection |-> s.selected_files]
    ELSE [path |-> s.panel_paths[i], entries |-> s.panel_files[i],
          cursor |-> s.panel_selected_index[i],
          scroll |-> s.panel_scroll_offset[i],
          selection |-> s.panel_selected_files[i]]

\* C20: with two panels Tab flips the active panel and changes the path,
\* the entries, the cursor, the scroll offset and the multi-selection of
\* neither panel; with one panel Tab changes no state of the panel and no
\* mode, it only shows the hint, and raises no error.
C20_TabOnlySwitches ==
    running = "running" =>
        LET t == tab_key(Self)
        IN IF dual_panel_mode
           THEN /\ t.active_panel = 1 - active_panel
                /\ t.dual_panel_mode
                /\ t.running = "running"
                /\ \A i \in {0, 1} : PanelView(t, i) = PanelView(Self, i)
           ELSE t = [Self EXCEPT
                       !.message = "Tab only works in dual panel mode"]

\* Tab left panel 0, whose entry under the cursor is selected, for panel 1.
C20_Witness ==
    /\ dual_panel_mode
    /\ active_panel = 1
    /\ panel_selected_index[0] = 1
    /\ panel_selected_files[0] = {1}
    /\ selected_files = {}

---------------------------------------------------------------------------
(* Hidden files, dialogs, the dual toggle, listings.                       *)

\* The panels on screen in s: both with two panels, else the active one.
LivePanels(s) == IF s.dual_panel_mode THEN {0, 1} ELSE {s.active_panel}

\* C21: the hidden-file toggle flips the one show_hidden flag, and
\* afterwards the entries of every panel on screen (one, or both with two
\* panels) are the listing of that panel's own, unchanged path under the
\* new value of the flag.
C21_HiddenToggleListsEveryPanel ==
    running = "running" =>
        LET t == toggle_hidden(Self)
        IN /\ t.show_hidden = ~show_hidden
           /\ LivePanels(t) = LivePanels(Self)
           /\ \A i \in LivePanels(Self) :
                 /\ PanelView(t, i).path = PanelView(Self, i).path
                 /\ PanelView(t, i).entries =
                       ListDir(t.fs, PanelView(t, i).path, t.show_hidden).entries

\* Hidden files were switched on with two panels on different directories:
\* the panel on / lists .h too.
C21_Witness ==
    /\ dual_panel_mode
    /\ show_hidden
    /\ message = "Hidden files: ON"
    /\ panel_paths[0] # panel_paths[1]
    /\ \E i \in {0, 1} : \E k \in 1..Len(panel_files[i]) :
          panel_files[i][k][1] = Name_h

\* The results of ESC in each of the five dialogs opened in state s.
Cancelled(s) ==
    { rename_file(s, DialogCancel),
      create_file(s, DialogCancel),
      create_directory(s, DialogCancel),
      start_search(s, DialogCancel),
      start_filter(s, DialogCancel) }

\* C22: ESC in a text dialog (rename, create file, create directory,
\* search, filter) leaves the path, the entries, the cursor, the scroll
\* offset, the multi-selection, the search or filter with its query and
\* its snapshot, the clipboard, the panel mode and the filesystem exactly
\* as they were: nothing but the message differs.
C22_EscapeLeavesState ==
    running = "running" =>
        \A s \in {Self, toggle_dual_panel(Self)} :
            \A t \in Cancelled(s) : t = [s EXCEPT !.message = t.message]

\* The search dialog was left with ESC while a search was active and an
\* entry selected.
C22_Witness ==
    /\ message = "Search cancelled"
    /\ search_mode
    /\ original_files # << >>
    /\ selected_files # {}

\* The panel that toggle_dual_panel makes of the path p in state s: a
\* fresh listing of p, the cursor and the scroll offset at 0, nothing
\* selected.
FreshPanel(s, p) ==
    [path |-> p, entries |-> ListDir(s.fs, p, s.show_hidden).entries,
     cursor |-> 0, scroll |-> 0, selection |-> {}]

\* Single -> Dual: the inactive panel is a fresh panel on the path of the
\* active one, and the entries of the active panel are freshly listed.
SingleToDual(s, t) ==
    /\ t.dual_panel_mode
    /\ t.active_panel = s.active_panel
    /\ PanelView(t, 1 - s.active_panel) = FreshPanel(s, s.current_path)
    /\ PanelView(t, s.active_panel).path = s.current_path
    /\ PanelView(t, s.active_panel).entries =
          ListDir(s.fs, s.current_path, s.show_hidden).entries

\* Dual -> Single: the one panel has the path, the cursor and the scroll
\* offset of the panel that was active.
DualToSingle(s, t) ==
    /\ ~t.dual_panel_mode
    /\ t.current_path = s.current_path
    /\ t.selected_index = s.selected_index
    /\ t.scroll_offset = s.scroll_offset

\* C23: on Single -> Dual the inactive panel is created with the path of
\* the active panel, cursor 0, scroll offset 0 and an empty
\* multi-selection, and the entries of both panels are freshly listed; on
\* Dual -> Single the path, the cursor and the scroll offset of the one
\* panel are those of the panel that was active when F2 was pressed.
C23_DualToggle ==
    running = "running" =>
        IF dual_panel_mode
        THEN DualToSingle(Self, toggle_dual_panel(Self))
        ELSE SingleToDual(Self, toggle_dual_panel(Self))

\* L is the listing of the directory p of f: exactly the children of p
\* (those not starting with '.' unless hidden), each once and with its
\* kind, every directory before every file and each group ascending by
\* lower-cased name.
IsListing(L, f, p, hidden) ==
    /\ { L[k][1] : k \in 1..Len(L) } =
          { n \in Children(f, p) : hidden \/ n[1] # 46 }
    /\ \A i, j \in 1..Len(L) : i # j => L[i][1] # L[j][1]
    /\ \A k \in 1..Len(L) : L[k][2] = IsDir(f, Join(p, L[k][1]))
    /\ \A i, j \in 1..Len(L) :
          i < j => /\ L[i][2] \/ ~L[j][2]
                   /\ L[i][2] = L[j][2]
                         => ~StrLess(Lower(L[j][1]), Lower(L[i][1]))

\* C24: for every directory snapshot and both values of show_hidden, the
\* listing holds exactly the direct children whose name does not start
\* with '.' (all of them when show_hidden is on), every directory before
\* every file and each group ascending by lower-cased name; listing the
\* unchanged directory again gives the same sequence.
C24_ListingSortedAndFiltered ==
    running = "running" =>
        \A s \in {Self, toggle_hidden(Self)} :
            LET t == refresh_files(s)
            IN /\ IsListing(t.files, s.fs, s.current_path, s.show_hidden)
               /\ refresh_files(t).files = t.files

\* The directory holds B.T, a.t, the directory c and .h; with hidden files
\* off it was listed as c, a.t, B.T.
C24_Witness ==
    /\ message = "Refreshed"
    /\ ~show_hidden
    /\ Exists(fs, << Name_h >>)
    /\ files = << << Name_c, TRUE >>, << Name_at, FALSE >>, << Name_BT, FALSE >> >>

---------------------------------------------------------------------------
(* Search and filter, paste report, names, cursor moves, selection,        *)
(* unreadable directories.                                                 *)

\* The extension typed in the filter dialog, lower-cased, stripped and made
\* to start with '.'.
NormalizedExt(x) ==
    LET e == Strip(Lower(x))
    IN IF StartsWith(e, << 46 >>) THEN e ELSE << 46 >> \o e

\* The unfiltered listing of the directory of s.
Unfiltered(s) == ListDir(s.fs, s.current_path, s.show_hidden).entries

\* t shows exactly the entries L, with the cursor and the scroll offset at
\* 0 and nothing selected.
ShowsExactly(t, L) ==
    /\ t.files = L
    /\ t.selected_index = 0
    /\ t.scroll_offset = 0
    /\ t.selected_files = {}

\* C25: a search or a filter shows exactly the entries of the unfiltered
\* listing that match, in listing order: for a search the names that
\* contain the query, for a filter the names that end with the extension
\* made to start with '.', both without regard to case; and it puts the
\* cursor and the scroll offset at 0 and empties the multi-selection.
C25_OverlayShowsMatches ==
    running = "running" =>
        /\ \A inp \in { i \in SearchInputs : ~i.cancel /\ Strip(i.text) # << >> } :
              ShowsExactly(start_search(Self, inp),
                  SelectSeq(Unfiltered(Self),
                      LAMBDA e : Contains(Lower(e[1]), Lower(inp.text))))
        /\ \A inp \in { i \in FilterInputs : ~i.cancel /\ Strip(i.text) # << >> } :
              ShowsExactly(start_filter(Self, inp),
                  SelectSeq(Unfiltered(Self),
                      LAMBDA e : EndsWith(Lower(e[1]), NormalizedExt(inp.text))))

\* C26: the message after a paste is the report of the whole batch: after
\* a paste with at least one pasted item and at least one error it names
\* the number of pasted items as well as the errors (at most ErrorCap of
\* them).
C26_PasteReportsCountAndErrors ==
    running = "running" =>
        \A s \in {Self, toggle_dual_panel(Self)} :
            (s.clipboard # << >> /\ PasteBounded(s)) =>
                LET r == paste_loop(s.fs, s.clipboard, s.current_path,
                                    s.clipboard_action)
                IN (r.pasted_count > 0 /\ r.errors > 0) =>
                      /\ paste_report(s).count = r.pasted_count
                      /\ paste_report(s).errors > 0

\* The names typed in the rename and create dialogs, as the handlers see
\* them: stripped, and not empty.
TypedNames == { Strip(inp.text) : inp \in { i \in NameInputs : ~i.cancel } } \ { << >> }

\* The name is one the spec calls InvalidName (it contains '/', or is '.'
\* or '..') or AlreadyExists (an entry of the directory p has it).
Rejectable(f, p, name) ==
    \/ \E k \in 1..Len(name) : name[k] = 47
    \/ name = << 46 >>
    \/ name = << 46, 46 >>
    \/ Exists(f, Join(p, name))

\* The messages rename_file, create_file and create_directory show with
\* error=True for a name they reject.
NameErrors ==
    { "Invalid file name", "Invalid directory name",
      "File already exists", "Directory already exists" }

\* t is s with an error message about the name and nothing else changed.
RejectedFrom(s, t) ==
    /\ t = [s EXCEPT !.message = t.message]
    /\ t.message \in NameErrors

\* rename_file opens its dialog: the cursor is on an entry.
RenameAsks(s) == s.files # << >> /\ s.selected_index < Len(s.files)

\* C27 as stated: rename, create-file and create-directory reject every
\* name that contains '/', is '.' or '..', or is the name of an existing
\* entry of the current directory: the filesystem and the entries are
\* unchanged and an error message is set.
C27_NamesRejected ==
    running = "running" =>
        \A s \in {Self, toggle_dual_panel(Self)} :
            \A name \in TypedNames :
                Rejectable(s.fs, s.current_path, name) =>
                    /\ RejectedFrom(s, create_file(s, DialogText(name)))
                    /\ RejectedFrom(s, create_directory(s, DialogText(name)))
                    /\ RenameAsks(s) =>
                          RejectedFrom(s, rename_file(s, DialogText(name)))

\* C27, amended: as above, except that rename to the name the entry under
\* the cursor already has is not an error: it is taken as a cancel, which
\* changes nothing but the message.
C27_NamesRejectedButOwn ==
    running = "running" =>
        \A s \in {Self, toggle_dual_panel(Self)} :
            \A name \in TypedNames :
                Rejectable(s.fs, s.current_path, name) =>
                    /\ RejectedFrom(s, create_file(s, DialogText(name)))
                    /\ RejectedFrom(s, create_directory(s, DialogText(name)))
                    /\ RenameAsks(s) =>
                          LET t == rename_file(s, DialogText(name))
                          IN IF name = s.files[s.selected_index + 1][1]
                             THEN t = show_message(s, "Rename cancelled")
                             ELSE RejectedFrom(s, t)

\* A name that exists was refused in the directory c, with two entries in
\* it, after the filesystem was changed by an accepted name.
C27_Witness ==
    /\ message \in { "File already exists", "Directory already exists" }
    /\ current_path = << Name_c >>
    /\ Len(files) >= 2
    /\ fs_changes = 1

\* The result t of a cursor move by step (-1 up, +1 down) from s is the
\* one the spec asks for.
MovedByOne(s, t, step) ==
    LET target == s.selected_index + step
    IN /\ t.selected_index =
             IF target >= 0 /\ target <= Len(s.files) - 1
             THEN target ELSE s.selected_index
       /\ s.files = << >> =>
             /\ t.selected_index = s.selected_index
             /\ t.scroll_offset = s.scroll_offset

\* C28: a cursor move changes the cursor by exactly one step in its
\* direction when the result stays inside 0..len(entries)-1 and leaves it
\* unchanged otherwise; on an empty listing it leaves the cursor and the
\* scroll offset unchanged.
C28_CursorMovesOneStep ==
    running = "running" =>
        \A s \in {Self, toggle_dual_panel(Self)} :
            /\ MovedByOne(s, navigate_up(s), -1)
            /\ MovedByOne(s, navigate_down(s), 1)

\* t shows the entries, the cursor and the scroll offset of s.
SameView(s, t) ==
    /\ t.files = s.files
    /\ t.selected_index = s.selected_index
    /\ t.scroll_offset = s.scroll_offset

\* C29: toggle_selection flips the membership of the cursor index in the
\* multi-selection, and changes nothing at all when the listing is empty
\* or the cursor is not an index of it; select_all makes the
\* multi-selection 0..len(entries)-1; clear_selection makes it empty;
\* none of the three changes the entries, the cursor or the scroll offset.
C29_SelectionCommands ==
    running = "running" =>
        \A s \in {Self, toggle_dual_panel(Self)} :
            /\ LET t == toggle_selection(s)
                   i == s.selected_index
               IN IF s.files = << >> \/ i \notin 0..(Len(s.files) - 1)
                  THEN t = s
                  ELSE /\ t.selected_files =
                             IF i \in s.selected_files
                             THEN s.selected_files \ {i}
                             ELSE s.selected_files \cup {i}
                       /\ SameView(s, t)
            /\ select_all(s).selected_files = 0..(Len(s.files) - 1)
            /\ SameView(s, select_all(s))
            /\ clear_selection(s).selected_files = {}
            /\ SameView(s, clear_selection(s))

\* The panels of s whose directory cannot be listed for lack of
\* permission.
UnreadablePanels(s) ==
    { i \in LivePanels(s) :
        ListDir(s.fs, PanelView(s, i).path, s.show_hidden).status = "perm" }

\* C30: when the directory of a panel cannot be listed because of a
\* permission failure, refresh_files, with one panel or two, leaves that
\* panel with no entries, sets an error message, and does not raise.
C30_UnreadablePanelReported ==
    running = "running" =>
        \A s \in {Self, toggle_dual_panel(Self)} :
            \A i \in UnreadablePanels(s) :
                LET t == refresh_files([s EXCEPT !.message = ""])
                IN /\ PanelView(t, i).entries = << >>
                   /\ t.message = "Permission denied"
                   /\ t.running = "running"

---------------------------------------------------------------------------
(* Refresh under an overlay, overlay on overlay, quit, scroll offset,      *)
(* origin of the entries, stored panel, overlay flags, the text dialog.    *)

\* t has the overlay of s: the same kind and the same query.
SameOverlay(s, t) ==
    /\ t.search_mode = s.search_mode
    /\ t.filter_mode = s.filter_mode
    /\ t.search_query = s.search_query
    /\ t.filter_extension = s.filter_extension

\* C31: F5 while a search or a filter is active keeps the overlay: after
\* it the same kind and query are active, the path is the same, and the
\* entries are the entries of the new listing of the directory that match.
C31_RefreshKeepsOverlay ==
    running = "running" =>
        \A s \in {Self, toggle_dual_panel(Self)} :
            OverlayActive(s) =>
                LET t == refresh_key(s)
                IN /\ t.current_path = s.current_path
                   /\ SameOverlay(s, t)
                   /\ t.files = SelectSeq(Unfiltered(s),
                                          LAMBDA e : Matches(s, e))

\* The pairs << direct, stacked >> of states that one overlay b makes of
\* s and of a, for every search and every filter of the model.
OverlayPairs(s, a) ==
    { << start_search(s, inp), start_search(a, inp) >> :
        inp \in { i \in SearchInputs : ~i.cancel /\ Strip(i.text) # << >> } }
    \cup
    { << start_filter(s, inp), start_filter(a, inp) >> :
        inp \in { i \in FilterInputs : ~i.cancel /\ Strip(i.text) # << >> } }

\* C32: an overlay b applied while an overlay a is active, with no
\* refresh in between, shows the entries that b shows when applied to the
\* listing without overlay, and leaves the snapshot taken for a as it is.
C32_OverlayOnOverlay ==
    running = "running" =>
        \A s \in {Self, toggle_dual_panel(Self)} :
            ~OverlayActive(s) =>
                \A a \in Overlaid(s) :
                    \A pr \in OverlayPairs(s, a) :
                        /\ pr[2].files = pr[1].files
                        /\ pr[2].original_files = a.original_files
                        /\ pr[2].original_files = s.files

\* A search was applied over a filter (the extension of the filter is
\* still stored) and shows fewer entries than the snapshot holds.
C32_Witness ==
    /\ search_mode
    /\ filter_extension # << >>
    /\ files # << >>
    /\ Len(files) < Len(original_files)

\* One or two panels, started with --cd or without, in a terminal of the
\* largest height: navigation, search, and the keys that quit.
InitQuit ==
    /\ \E cd \in BOOLEAN : Becomes(InitSelfWith(MaxHeight, InitFs, cd))
    /\ fs_changes = 0

NextQuit ==
    \/ NavigateUp
    \/ NavigateDown
    \/ NavigateLeft
    \/ NavigateRight
    \/ ToggleDualPanel
    \/ TabKey
    \/ StartSearch
    \/ EscapeKey
    \/ QuitKey

SpecQuit == InitQuit /\ [][NextQuit]_vars

\* The states that a key that quits makes of s when the temp file can be
\* written: 'q', and ESC or backslash when no overlay is active.
Quits(s) ==
    { quit_key(s, TRUE) } \cup
    (IF OverlayActive(s) THEN {} ELSE { escape_key(s, TRUE) })

\* C33: started with --cd, every normal quit ('q', or ESC with no overlay)
\* ends the loop with the path of the active directory of that moment (of
\* the active panel with two panels) written to the temp file; started
\* without --cd a quit writes nothing.
C33_QuitWritesActivePath ==
    running = "running" =>
        \A s \in {Self, toggle_dual_panel(Self)} :
            \A t \in Quits(s) :
                /\ t.running = "quit"
                /\ s.cd_on_exit =>
                      t.temp_file = << PathStr(PanelView(s, s.active_panel).path) >>
                /\ (s.cd_on_exit /\ s.dual_panel_mode) =>
                      t.temp_file = << PathStr(s.panel_paths[s.active_panel]) >>
                /\ ~s.cd_on_exit =>
                      \A w \in BOOLEAN :
                          /\ quit_key(s, w).temp_file = << >>
                          /\ escape_key(s, w).temp_file = << >>

\* The program was started with --cd and has quit from the right panel
\* on the directory c, whose path is in the temp file.
C33_Witness ==
    /\ running = "quit"
    /\ cd_on_exit
    /\ dual_panel_mode
    /\ active_panel = 1
    /\ current_path = << Name_c >>
    /\ temp_file = << << 47, 99 >> >>

\* The heights of the terminal down to one row: below ChromeRows the
\* number of visible rows of adjust_scroll is negative.
AllHeights == 1..MaxHeight

\* One or two panels in a terminal of any height, on a filesystem whose
\* directory c has two entries: cursor moves, directory changes, panels.
InitScroll ==
    /\ \E h \in AllHeights : Becomes(InitSelfOn(h, TwinFs))
    /\ fs_changes = 0

NextScroll ==
    \/ NavigateUp
    \/ NavigateDown
    \/ NavigateLeft
    \/ NavigateRight
    \/ ToggleDualPanel
    \/ TabKey
    \/ StartSearch
    \/ EscapeKey

SpecScroll == InitScroll /\ [][NextScroll]_vars

\* C34: in every reachable state the scroll offset of the working panel
\* and the stored scroll offset of each panel are >= 0, whatever the
\* height of the terminal, also when the number of visible rows is zero or
\* negative.
C34_ScrollOffsetNotNegative ==
    /\ scroll_offset >= 0
    /\ \A i \in 0..1 : panel_scroll_offset[i] >= 0

\* With a negative number of visible rows the cursor was moved and the
\* view has scrolled, in the working panel and in its stored copy.
C34_Witness ==
    /\ height < ChromeRows
    /\ dual_panel_mode
    /\ selected_index > 0
    /\ scroll_offset > 0
    /\ panel_scroll_offset[active_panel] > 0

\* The elements of a sequence.
Elements(L) == { L[k] : k \in 1..Len(L) }

\* A is a sub-sequence of L: some of the elements of L, in the order of L.
IsSubSequence(A, L) == A = SelectSeq(L, LAMBDA e : e \in Elements(A))

\* C35: in every reachable state the entries of the active panel are a
\* sub-sequence of a listing of its current path.  The filesystem has not
\* changed, so the listings of a path are its listing with and without the
\* hidden entries.
C35_EntriesOfCurrentPath ==
    (running = "running" /\ fs_changes = 0) =>
        \E hidden \in BOOLEAN :
            IsSubSequence(files, ListDir(fs, current_path, hidden).entries)

\* C36: with two panels, after every command the working state of the
\* active panel equals its stored slot: the path, the cursor, the scroll
\* offset and the entries.
C36_WorkingEqualsStored ==
    (running = "running" /\ dual_panel_mode) =>
        /\ current_path = panel_paths[active_panel]
        /\ selected_index = panel_selected_index[active_panel]
        /\ scroll_offset = panel_scroll_offset[active_panel]
        /\ files = panel_files[active_panel]

\* At most one of the two overlays is on in s, and a snapshot is held
\* only while one is on.
FlagsConsistent(s) ==
    /\ ~(s.search_mode /\ s.filter_mode)
    /\ s.original_files # << >> => (s.search_mode \/ s.filter_mode)

\* The states that the commands that set or clear the overlay make of s.
OverlayCommands(s) ==
    { start_search(s, inp) : inp \in SearchInputs } \cup
    { start_filter(s, inp) : inp \in FilterInputs } \cup
    { escape_key(s, TRUE), refresh_key(s), navigate_left(s), toggle_hidden(s),
      toggle_dual_panel(s), tab_key(s) }

\* C37: search and filter are mutually exclusive: in every reachable
\* state at most one of search_mode and filter_mode is set, and whenever
\* original_files is non-empty one of them is set.  The same is true of
\* the state after every command that sets or clears an overlay, with one
\* panel or two.
C37_OverlayFlagsConsistent ==
    /\ FlagsConsistent(Self)
    /\ running = "running" =>
          \A s \in {Self, toggle_dual_panel(Self)} :
              \A t \in OverlayCommands(s) : FlagsConsistent(t)

\* A filter is on over a snapshot, applied after a search whose query is
\* still stored.
C37_Witness ==
    /\ filter_mode
    /\ search_query # << >>
    /\ original_files # << >>

\* C38: ESC and backslash in the main loop never quit while a search or a
\* filter is active: they clear the overlay and the loop goes on; they
\* quit when no overlay is active; 'q' quits in every state.
C38_EscapeClearsBeforeQuit ==
    running = "running" =>
        \A s \in {Self, toggle_dual_panel(Self)} :
            \A w \in BOOLEAN :
                /\ OverlayActive(s) =>
                      /\ escape_key(s, w).running = "running"
                      /\ ~OverlayActive(escape_key(s, w))
                      /\ escape_key(s, w).original_files = << >>
                /\ ~OverlayActive(s) => escape_key(s, w).running = "quit"
                /\ quit_key(s, w).running = "quit"

\* The loop has ended after ESC had cleared a search: the message of the
\* clearing is still the last one.
C38_Witness ==
    /\ running = "quit"
    /\ message = "Search/filter cleared"
    /\ ~search_mode
    /\ ~filter_mode

\* A text dialog just opened with a max_length of 1..MaxLength: the keys
\* typed into it until it returns.
InitDialog ==
    /\ \E m \in 1..MaxLength :
          Becomes([InitSelf(MaxHeight) EXCEPT !.dialog = DialogStart(m)])
    /\ fs_changes = 0

NextDialog == DialogKey

SpecDialog == InitDialog /\ [][NextDialog]_vars

\* The keys of the claim that may change the text or the cursor of the
\* dialog: printable ASCII, backspace, left, right, home, end.
EditingKeys ==
    (32..126) \cup {KEY_BACKSPACE, 127, 8, KEY_LEFT, KEY_RIGHT,
                    KEY_HOME, 1, KEY_END, 5}

\* C39: in the loop of the text dialog, after every key
\* 0 <= cursor_pos <= len(input_str) <= max_length - 1; the loop returns
\* only on Enter, returning the string as it is (also when empty), or on
\* ESC, returning the cancellation; and a key that is neither of these nor
\* printable ASCII, backspace, left, right, home or end changes neither the
\* string nor the cursor position.
C39_DialogLoop ==
    dialog.max_length > 0 =>
        /\ 0 <= dialog.cursor_pos
        /\ dialog.cursor_pos <= Len(dialog.input_str)
        /\ Len(dialog.input_str) <= dialog.max_length - 1
        /\ dialog.returned = "no" =>
              \A key \in DialogKeys :
                  LET d == dialog_key(dialog, key)
                  IN /\ key = 27 =>
                           d.returned = "esc" /\ dialog_result(d) = DialogCancel
                     /\ key \in {10, 13, KEY_ENTER} =>
                           /\ d.returned = "enter"
                           /\ dialog_result(d) = DialogText(dialog.input_str)
                     /\ key \notin {27, 10, 13, KEY_ENTER} => d.returned = "no"
                     /\ key \notin EditingKeys =>
                           /\ d.input_str = dialog.input_str
                           /\ d.cursor_pos = dialog.cursor_pos

\* The dialog has returned on Enter a string of the greatest length it
\* takes, two characters or more, with the cursor inside the string.
C39_Witness ==
    /\ dialog.returned = "enter"
    /\ Len(dialog.input_str) = dialog.max_length - 1
    /\ Len(dialog.input_str) >= 2
    /\ dialog.cursor_pos > 0
    /\ dialog.cursor_pos < Len(dialog.input_str)

====
